---- MODULE Spec2Model ----
(***************************************************************************)
(* A model of unittest_mixins/mixins.py: the scoped directory change, the  *)
(* environment-variable tracker, the delayed-assertion collector, the      *)
(* temporary-directory test lifecycle with its per-class usage records,    *)
(* the module cleaner and the capture of the standard streams.             *)
(*                                                                         *)
(* Paths are sequences of path components (<<>> is the root directory).    *)
(***************************************************************************)
EXTENDS Integers, Sequences, FiniteSets, TLC

VARIABLES
    cwd,          \* the process current directory (what os.getcwd() returns)
    dirs,         \* the directories that exist
    cd_frames,    \* the active change_dir scopes, innermost last: their old_dir
    cd_exc,       \* an exception is propagating through the change_dir scopes
    cd_hist,      \* history: per active scope, what was current before entry
    cd_last,      \* history: the last scope exit
    environ,      \* os.environ: name -> value, None when the name is absent
    environ_undos,\* self._environ_undos, in insertion order: <<[name, value]>>
    env_phase,    \* "idle", "body" (between setUp and the cleanups), "raised"
                  \* (the body ended with an error), "done"
    env_err,      \* the environment cleanup raised (KeyError)
    env_log,      \* history: the set_environ calls of the current test
    env_del,      \* history: the last del_environ call of the current test
    fail,         \* what self.fail is bound to: "TestCase.fail" or "_delayed_fail"
    delayed_assertions, \* self._delayed_assertions: None, or the list of messages
    da_blocks,    \* the open delayed_assertions blocks, innermost last: old_fail
    da_exc,       \* the exception propagating in the test, if any
    da_hist,      \* history: per open block, the failures intercepted, the
                  \* assertions run and the blocks opened in it, and what
                  \* the block before it left behind
    da_op,        \* history: the last operation
    da_last,      \* history: the last block exit since the last block entry
    files,        \* the files that exist (their paths)
    sys_path,     \* sys.path
    sys_modules,  \* sys.modules: name -> the module loaded under it
    class_behaviors, \* TempDirMixin._class_behaviors: class -> _ClassBehavior
    td_phase,     \* "idle", "body", "cleanup", "finished": where the test is
    td_class,     \* the class of the running test
    td_temp_dir,  \* self.temp_dir
    td_cleanups,  \* the cleanups registered with addCleanup, last one last
    td_exc,       \* the exception that ended setUp or the test body
    td_errs,      \* the number of cleanups of the running test that raised
    td_tests,     \* history: the number of tests started
    td_paths,     \* history: the temp directories handed to tests so far
    td_given,     \* history: the number of tests handed a temp directory
    td_calls,     \* history: per class, the tests that called skipTest,
                  \* whether every finished test did, and the tests whose
                  \* body made a file
    td_last,      \* history: the last make_file or skipTest call
    td_ran,       \* history: the cleanups of the test run so far, first one
                  \* first, and whether a removal found the current directory
                  \* inside the directory it removes
    td_before,    \* history: the process state right before setUp of the test
    td_direct,    \* history: the body of the test called os.chdir itself
    td_edited,    \* history: the body of the test changed sys.path itself
    td_modlog,    \* history: the last import or cleanup_modules call
    file_text,    \* the text of each file: path -> text
    mc_old,       \* a ModuleCleaner made by test code: its _old_modules
    bd_rec,       \* a usage record handed to badness()
    bd_out,       \* what badness() returned for it
    sys_stdout,   \* sys.stdout: the stream object it refers to (its number)
    sys_stderr,   \* sys.stderr: the stream object it refers to
    streams,      \* the stream objects, by number: files, StringIOs and _Tees
    ss_phase,     \* "idle", "body", "cleanup", "finished": where the test is
    ss_captured,  \* self.captured_stdout and self.captured_stderr
    ss_cleanups,  \* the cleanups registered with addCleanup
    ss_exc,       \* the exception that ended the test body
    ss_tests,     \* history: the number of tests started
    ss_before,    \* history: the streams right before setUp of the test
    ss_written,   \* history: what the body wrote to sys.stdout and sys.stderr
    ss_read       \* history: the last stdout() or stderr() call

procVars == <<cwd, dirs>>
cdVars == <<cd_frames, cd_exc, cd_hist, cd_last>>
envVars == <<environ, environ_undos, env_phase, env_err, env_log, env_del>>

daVars == <<fail, delayed_assertions, da_blocks, da_exc, da_hist, da_op, da_last>>

tdVars == <<files, file_text, sys_path, sys_modules, class_behaviors, td_phase,
            td_class, td_temp_dir, td_cleanups, td_exc, td_errs, td_tests, td_paths,
            td_given, td_calls, td_last, td_before, td_direct, td_edited, td_modlog,
            mc_old, td_ran>>
bdVars == <<bd_rec, bd_out>>

ssVars == <<sys_stdout, sys_stderr, streams, ss_phase, ss_captured, ss_cleanups,
            ss_exc, ss_tests, ss_before, ss_written, ss_read>>

vars == <<procVars, cdVars, envVars, daVars, tdVars, bdVars, ssVars>>

\* What each part of the library leaves alone.
notChangeDir == <<envVars, daVars, tdVars, bdVars, ssVars>>
notEnviron == <<procVars, cdVars, daVars, tdVars, bdVars, ssVars>>
notDelayed == <<procVars, cdVars, envVars, tdVars, bdVars, ssVars>>
notTempDir == <<cdVars, envVars, daVars, bdVars, ssVars>>
notBadness == <<procVars, cdVars, envVars, daVars, tdVars, ssVars>>
notStreams == <<procVars, cdVars, envVars, daVars, tdVars, bdVars>>

None == "None"

-----------------------------------------------------------------------------
(* Bounds *)

MaxDepth == 2      \* nested change_dir scopes
MaxSets == 3       \* set_environ calls in one test
MaxAsserts == 3    \* assertions run inside one delayed_assertions block
MaxNest == 2       \* delayed_assertions blocks open at once
MaxInner == 1      \* delayed_assertions blocks opened inside one open block
MaxTests == 2      \* tests run by one process
MaxRand == 1       \* random.randint(0, MaxRand) stands for randint(0, 99999999)
MaxChdir == 1      \* self.chdir calls in one test body
MaxPathLen == 3    \* entries of sys.path
MaxWrites == 2     \* writes to sys.stdout and sys.stderr in one test body
MaxCount == 2      \* the counters of a usage record handed to badness()

-----------------------------------------------------------------------------
(* Paths *)

RECURSIVE NormParts(_, _)
\* os-level path resolution: walk the components, ".." drops one level
\* (and stays at the root), "." stays.
NormParts(base, parts) ==
    IF parts = <<>> THEN base
    ELSE LET h == Head(parts) IN
         IF h = ".." THEN
             NormParts(IF base = <<>> THEN <<>> ELSE SubSeq(base, 1, Len(base) - 1),
                       Tail(parts))
         ELSE IF h = "." THEN NormParts(base, Tail(parts))
         ELSE NormParts(Append(base, h), Tail(parts))

\* A path argument is absolute or relative to the current directory.
Resolve(cur, p) == IF p.abs THEN NormParts(<<>>, p.parts) ELSE NormParts(cur, p.parts)

AbsPath(parts) == [abs |-> TRUE, parts |-> parts]
RelPath(parts) == [abs |-> FALSE, parts |-> parts]

\* The directories of ChangeDirTest.setUp: here, root, root/a_dir, root/b_dir.
Here == <<"home">>
Root == <<"tmp", "root">>
InitDirs == {<<>>, <<"home">>, <<"tmp">>, Root, Root \o <<"a_dir">>, Root \o <<"b_dir">>}

\* The path arguments the code is called with.
PathArgs ==
    {AbsPath(Root), AbsPath(Here), AbsPath(Root \o <<"b_dir">>), AbsPath(<<"nope">>),
     RelPath(<<"a_dir">>), RelPath(<<"..">>), RelPath(<<"nope">>)}

\* os.getcwd(): the absolute path of the current directory.
os_getcwd == AbsPath(cwd)

\* os.chdir(p) succeeds exactly when p names an existing directory.
chdir_ok(p) == Resolve(cwd, p) \in dirs

-----------------------------------------------------------------------------
(* change_dir *)

NoExit == [done |-> FALSE, before |-> <<>>, after |-> <<>>, moved |-> FALSE,
           raised |-> FALSE, depth |-> 0]

\* with change_dir(new_dir): old_dir = os.getcwd(); os.chdir(new_dir); try: yield
\* A failing os.chdir raises before the try: no scope is entered.
change_dir_enter(new_dir) ==
    /\ ~cd_exc
    /\ Len(cd_frames) < MaxDepth
    /\ LET old_dir == os_getcwd IN
       IF chdir_ok(new_dir)
       THEN /\ cwd' = Resolve(cwd, new_dir)
            /\ cd_frames' = Append(cd_frames, [old_dir |-> old_dir])
            /\ cd_hist' = Append(cd_hist, [before |-> cwd, moved |-> FALSE])
            /\ UNCHANGED cd_exc
       ELSE /\ cd_exc' = TRUE
            /\ UNCHANGED <<cwd, cd_frames, cd_hist>>
    /\ UNCHANGED <<dirs, cd_last>>
    /\ UNCHANGED notChangeDir

\* The body of the block calls os.chdir itself.
cd_body_chdir(p) ==
    /\ ~cd_exc
    /\ Len(cd_frames) > 0
    /\ IF chdir_ok(p)
       THEN /\ cwd' = Resolve(cwd, p)
            /\ cd_hist' = [cd_hist EXCEPT ![Len(cd_hist)].moved = TRUE]
            /\ UNCHANGED cd_exc
       ELSE /\ cd_exc' = TRUE
            /\ UNCHANGED <<cwd, cd_hist>>
    /\ UNCHANGED <<dirs, cd_frames, cd_last>>
    /\ UNCHANGED notChangeDir

\* The body of the block raises.
cd_body_raise ==
    /\ ~cd_exc
    /\ Len(cd_frames) > 0
    /\ cd_exc' = TRUE
    /\ UNCHANGED <<cwd, dirs, cd_frames, cd_hist, cd_last>>
    /\ UNCHANGED notChangeDir

\* A variant of the exit whose restore is not in a finally clause.
change_dir_exit_no_finally ==
    /\ Len(cd_frames) > 0
    /\ LET f == cd_frames[Len(cd_frames)]
           h == cd_hist[Len(cd_hist)]
           after == IF cd_exc THEN cwd ELSE Resolve(cwd, f.old_dir)
       IN /\ cwd' = after
          /\ cd_last' = [done |-> TRUE, before |-> h.before, after |-> after, moved |-> h.moved,
                         raised |-> cd_exc, depth |-> Len(cd_frames)]
    /\ cd_frames' = SubSeq(cd_frames, 1, Len(cd_frames) - 1)
    /\ cd_hist' = SubSeq(cd_hist, 1, Len(cd_hist) - 1)
    /\ UNCHANGED <<dirs, cd_exc>>
    /\ UNCHANGED notChangeDir

\* Leaving the block, normally or with the exception still propagating:
\* finally: os.chdir(old_dir).
change_dir_exit ==
    /\ Len(cd_frames) > 0
    /\ LET f == cd_frames[Len(cd_frames)]
           h == cd_hist[Len(cd_hist)]
           after == Resolve(cwd, f.old_dir)
       IN /\ cwd' = after
          /\ cd_last' = [done |-> TRUE, before |-> h.before, after |-> after, moved |-> h.moved,
                         raised |-> cd_exc, depth |-> Len(cd_frames)]
    /\ cd_frames' = SubSeq(cd_frames, 1, Len(cd_frames) - 1)
    /\ cd_hist' = SubSeq(cd_hist, 1, Len(cd_hist) - 1)
    /\ UNCHANGED <<dirs, cd_exc>>
    /\ UNCHANGED notChangeDir

\* The caller catches the exception (try: with change_dir(...) except: pass).
cd_catch ==
    /\ cd_exc
    /\ cd_exc' = FALSE
    /\ UNCHANGED <<cwd, dirs, cd_frames, cd_hist, cd_last>>
    /\ UNCHANGED notChangeDir


-----------------------------------------------------------------------------
(* EnvironmentAwareMixin *)

EnvNames == {"HOME", "XYZZY_PLUGH"}
EnvValues == {"orig", "Some Strange Text", "Some Other Thing"}

\* No del_environ call yet.
NoDel == [called |-> FALSE, name |-> "", before |-> None, was_set |-> FALSE,
          raised |-> "none"]

\* name in self._environ_undos
InUndos(undos, name) == \E i \in 1..Len(undos) : undos[i].name = name

\* setUp: self._environ_undos = {}; self.addCleanup(self._cleanup_environ)
env_setUp ==
    /\ env_phase \in {"idle", "done"}
    /\ environ_undos' = <<>>
    /\ env_phase' = "body"
    /\ env_err' = FALSE
    /\ env_log' = <<>>
    /\ env_del' = NoDel
    /\ UNCHANGED environ
    /\ UNCHANGED notEnviron

\* A variant of set_environ that records the current value on every call.
set_environ_always_records(name, value) ==
    /\ env_phase = "body"
    /\ Len(env_log) < MaxSets
    /\ environ_undos' =
          IF InUndos(environ_undos, name)
          THEN [i \in 1..Len(environ_undos) |->
                   IF environ_undos[i].name = name
                   THEN [name |-> name, value |-> environ[name]]
                   ELSE environ_undos[i]]
          ELSE Append(environ_undos, [name |-> name, value |-> environ[name]])
    /\ environ' = [environ EXCEPT ![name] = value]
    /\ env_log' = Append(env_log, [name |-> name, value |-> value, before |-> environ[name]])
    /\ UNCHANGED <<env_phase, env_err, env_del>>
    /\ UNCHANGED notEnviron

\* set_environ(name, value): record os.environ.get(name) the first time the
\* name is seen, then os.environ[name] = value.
set_environ(name, value) ==
    /\ env_phase = "body"
    /\ Len(env_log) < MaxSets
    /\ environ_undos' =
          IF ~InUndos(environ_undos, name)
          THEN Append(environ_undos, [name |-> name, value |-> environ[name]])
          ELSE environ_undos
    /\ environ' = [environ EXCEPT ![name] = value]
    /\ env_log' = Append(env_log, [name |-> name, value |-> value, before |-> environ[name]])
    /\ UNCHANGED <<env_phase, env_err, env_del>>
    /\ UNCHANGED notEnviron

\* self.del_environ(name): EnvironmentAwareMixin defines setUp, set_environ
\* and _cleanup_environ and nothing else, and unittest.TestCase has no
\* del_environ, so the attribute lookup raises AttributeError: the environment
\* and the undo records are as before and the test body ends with an error.
del_environ(name) ==
    /\ env_phase = "body"
    /\ env_del' = [called |-> TRUE, name |-> name, before |-> environ[name],
                   was_set |-> InUndos(environ_undos, name),
                   raised |-> "AttributeError"]
    /\ env_phase' = "raised"
    /\ UNCHANGED <<environ, environ_undos, env_err, env_log>>
    /\ UNCHANGED notEnviron

\* The test body assigns os.environ[name] = value itself, after a set_environ
\* call on the name.
env_direct_set(name, value) ==
    /\ env_phase = "body"
    /\ InUndos(environ_undos, name)
    /\ environ[name] # value
    /\ environ' = [environ EXCEPT ![name] = value]
    /\ UNCHANGED <<environ_undos, env_phase, env_err, env_log, env_del>>
    /\ UNCHANGED notEnviron

\* The test body runs del os.environ[name] itself, after a set_environ call
\* on the name.
env_direct_del(name) ==
    /\ env_phase = "body"
    /\ InUndos(environ_undos, name)
    /\ environ[name] # None
    /\ environ' = [environ EXCEPT ![name] = None]
    /\ UNCHANGED <<environ_undos, env_phase, env_err, env_log, env_del>>
    /\ UNCHANGED notEnviron

RECURSIVE CleanupEnviron(_, _)
\* for name, value in self._environ_undos.items(): del os.environ[name] when
\* value is None (KeyError when the name is absent), else os.environ[name] = value.
\* The result is the environment left behind and whether the loop raised.
CleanupEnviron(env, undos) ==
    IF undos = <<>> THEN [env |-> env, err |-> FALSE]
    ELSE LET u == Head(undos) IN
         IF u.value = None
         THEN IF env[u.name] = None
              THEN [env |-> env, err |-> TRUE]
              ELSE CleanupEnviron([env EXCEPT ![u.name] = None], Tail(undos))
         ELSE CleanupEnviron([env EXCEPT ![u.name] = u.value], Tail(undos))

\* A variant of the cleanup that also deletes the names it has no record of.
cleanup_environ_clears_untracked ==
    /\ env_phase \in {"body", "raised"}
    /\ LET r == CleanupEnviron(environ, environ_undos) IN
          /\ environ' = [n \in EnvNames |->
                            IF InUndos(environ_undos, n) THEN r.env[n] ELSE None]
          /\ env_err' = r.err
    /\ env_phase' = "done"
    /\ UNCHANGED <<environ_undos, env_log, env_del>>
    /\ UNCHANGED notEnviron

\* The registered cleanup runs (at teardown, or early through doCleanups()).
cleanup_environ ==
    /\ env_phase \in {"body", "raised"}
    /\ LET r == CleanupEnviron(environ, environ_undos) IN
          /\ environ' = r.env
          /\ env_err' = r.err
    /\ env_phase' = "done"
    /\ UNCHANGED <<environ_undos, env_log, env_del>>
    /\ UNCHANGED notEnviron


-----------------------------------------------------------------------------
(* DelayedAssertionMixin *)

\* The messages of the failing assertions: the diff text assertMultiLineEqual
\* passes to self.fail (it ends with a newline), and a plain self.fail("boom").
DiffXY == "'x' != 'y'\n- x\n+ y\n"
DiffWZ == "'w' != 'z'\n- w\n+ z\n"
FailMsgs == {DiffXY, DiffWZ, "boom"}

NoExc == [kind |-> "none", msg |-> ""]
AssertionError(msg) == [kind |-> "AssertionError", msg |-> msg]
ZeroDivisionError == [kind |-> "ZeroDivisionError", msg |-> "division by zero"]

NoList == [isNone |-> TRUE, items |-> <<>>]
ListOf(items) == [isNone |-> FALSE, items |-> items]

NoBlockExit == [done |-> FALSE, depth |-> 0, intercepted |-> <<>>, ran |-> 0,
                stale |-> FALSE, prevExc |-> "none",
                bodyExc |-> NoExc, outExc |-> NoExc, listBefore |-> NoList,
                listAfter |-> NoList, failAfter |-> "TestCase.fail"]

RECURSIVE str_join(_, _)
\* sep.join(items)
str_join(sep, items) ==
    IF items = <<>> THEN ""
    ELSE IF Len(items) = 1 THEN items[1]
    ELSE items[1] \o sep \o str_join(sep, Tail(items))

\* A variant that joins the items last to first.
AggregateMessage_reversed(items) ==
    ToString(Len(items)) \o " failed assertions:\n"
        \o str_join("\n", [i \in 1..Len(items) |-> items[Len(items) + 1 - i]])

\* "{0} failed assertions:\n{1}".format(len(list), "\n".join(list))
AggregateMessage(items) ==
    ToString(Len(items)) \o " failed assertions:\n" \o str_join("\n", items)

\* A variant without the single-failure branch.
ExitMessage_always_counts(items) == AggregateMessage(items)

\* The message the block fails with: the only entry, or the aggregate.
ExitMessage(items) ==
    IF Len(items) = 1 THEN items[1] ELSE AggregateMessage(items)

\* self.fail(msg) under the binding `f`: TestCase.fail raises AssertionError(msg),
\* _delayed_fail appends msg to self._delayed_assertions and returns.
CallFail(f, list, msg) ==
    IF f = "_delayed_fail"
    THEN [list |-> ListOf(Append(list.items, msg)), exc |-> NoExc]
    ELSE [list |-> list, exc |-> AssertionError(msg)]

\* A new TestCase instance: __init__ sets self._delayed_assertions = None.
da_new_test ==
    /\ da_blocks = <<>>
    /\ fail' = "TestCase.fail"
    /\ delayed_assertions' = NoList
    /\ da_blocks' = <<>>
    /\ da_exc' = NoExc
    /\ da_hist' = <<>>
    /\ da_op' = "new_test"
    /\ da_last' = NoBlockExit
    /\ UNCHANGED notDelayed

\* The blocks opened so far inside the innermost open block.
InnerBlocks == IF da_hist = <<>> THEN 0 ELSE da_hist[Len(da_hist)].inner

\* da_hist with one more block counted inside the innermost open block.
WithInnerBlock ==
    IF da_hist = <<>> THEN da_hist
    ELSE [da_hist EXCEPT ![Len(da_hist)].inner = @ + 1]

\* A variant of the block entry that keeps a list left by an earlier block.
da_enter_keeps_list ==
    /\ da_exc = NoExc
    /\ Len(da_blocks) < MaxNest
    /\ InnerBlocks < MaxInner
    /\ delayed_assertions' = ListOf(delayed_assertions.items)
    /\ da_blocks' = Append(da_blocks, [old_fail |-> fail])
    /\ fail' = "_delayed_fail"
    /\ da_hist' = Append(WithInnerBlock,
                         [intercepted |-> <<>>, ran |-> 0, inner |-> 0,
                          stale |-> delayed_assertions.items # <<>>,
                          prevExc |-> da_last.bodyExc.kind])
    /\ da_op' = "enter"
    /\ da_last' = NoBlockExit
    /\ UNCHANGED da_exc
    /\ UNCHANGED notDelayed

\* with self.delayed_assertions(): self._delayed_assertions = [];
\* old_fail = self.fail; self.fail = self._delayed_fail; try: yield
da_enter ==
    /\ da_exc = NoExc
    /\ Len(da_blocks) < MaxNest
    /\ InnerBlocks < MaxInner
    /\ delayed_assertions' = ListOf(<<>>)
    /\ da_blocks' = Append(da_blocks, [old_fail |-> fail])
    /\ fail' = "_delayed_fail"
    /\ da_hist' = Append(WithInnerBlock,
                         [intercepted |-> <<>>, ran |-> 0, inner |-> 0,
                          stale |-> delayed_assertions.items # <<>>,
                          prevExc |-> da_last.bodyExc.kind])
    /\ da_op' = "enter"
    /\ da_last' = NoBlockExit
    /\ UNCHANGED da_exc
    /\ UNCHANGED notDelayed

\* A block that is opened while no other block is open.
da_enter_top ==
    /\ da_blocks = <<>>
    /\ da_enter

\* The assertions run so far in the innermost open block.
RanInBlock == IF da_hist = <<>> THEN 0 ELSE da_hist[Len(da_hist)].ran

\* An assertion of the body passes: self.fail is not called.
da_assert_pass ==
    /\ da_exc = NoExc
    /\ da_blocks # <<>>
    /\ RanInBlock < MaxAsserts
    /\ da_hist' = [da_hist EXCEPT ![Len(da_hist)].ran = @ + 1]
    /\ da_op' = "pass"
    /\ UNCHANGED <<fail, delayed_assertions, da_blocks, da_exc, da_last>>
    /\ UNCHANGED notDelayed

\* A variant in which the stand-in records the message and raises as well.
da_assert_fail_raises_too(msg) ==
    /\ da_exc = NoExc
    /\ RanInBlock < MaxAsserts
    /\ LET r == CallFail(fail, delayed_assertions, msg) IN
          /\ delayed_assertions' = r.list
          /\ da_exc' = AssertionError(msg)
          /\ da_op' = IF fail = "_delayed_fail" THEN "intercept" ELSE "fail"
          /\ da_hist' = [i \in 1..Len(da_hist) |->
                           [intercepted |->
                               IF fail = "_delayed_fail"
                               THEN Append(da_hist[i].intercepted,
                                           [msg |-> msg, at |-> da_hist[i].ran + 1])
                               ELSE da_hist[i].intercepted,
                            ran |-> IF i = Len(da_hist) THEN da_hist[i].ran + 1
                                    ELSE da_hist[i].ran,
                            inner |-> da_hist[i].inner,
                            stale |-> da_hist[i].stale,
                            prevExc |-> da_hist[i].prevExc]]
    /\ UNCHANGED <<fail, da_blocks, da_last>>
    /\ UNCHANGED notDelayed

\* An assertion fails: it calls self.fail(msg).  Inside a block the call
\* reaches _delayed_fail (lines 254-256), outside it raises.
da_assert_fail(msg) ==
    /\ da_exc = NoExc
    /\ RanInBlock < MaxAsserts
    /\ LET r == CallFail(fail, delayed_assertions, msg) IN
          /\ delayed_assertions' = r.list
          /\ da_exc' = r.exc
          /\ da_op' = IF fail = "_delayed_fail" THEN "intercept" ELSE "fail"
          /\ da_hist' = [i \in 1..Len(da_hist) |->
                           [intercepted |->
                               IF fail = "_delayed_fail"
                               THEN Append(da_hist[i].intercepted,
                                           [msg |-> msg, at |-> da_hist[i].ran + 1])
                               ELSE da_hist[i].intercepted,
                            ran |-> IF i = Len(da_hist) THEN da_hist[i].ran + 1
                                    ELSE da_hist[i].ran,
                            inner |-> da_hist[i].inner,
                            stale |-> da_hist[i].stale,
                            prevExc |-> da_hist[i].prevExc]]
    /\ UNCHANGED <<fail, da_blocks, da_last>>
    /\ UNCHANGED notDelayed

\* The body raises an error that is no assertion failure (1/0).
da_raise_other ==
    /\ da_exc = NoExc
    /\ da_blocks # <<>>
    /\ da_exc' = ZeroDivisionError
    /\ da_op' = "raise"
    /\ UNCHANGED <<fail, delayed_assertions, da_blocks, da_hist, da_last>>
    /\ UNCHANGED notDelayed

\* A variant whose report of the collected failures sits in the finally clause.
da_exit_reports_in_finally ==
    /\ da_blocks # <<>>
    /\ LET f == da_blocks[Len(da_blocks)]
           h == da_hist[Len(da_hist)]
           r == IF delayed_assertions.items # <<>>
                THEN CallFail(f.old_fail, delayed_assertions,
                              ExitMessage(delayed_assertions.items))
                ELSE [list |-> delayed_assertions, exc |-> da_exc]
       IN /\ fail' = f.old_fail
          /\ delayed_assertions' = r.list
          /\ da_exc' = r.exc
          /\ da_last' = [done |-> TRUE, depth |-> Len(da_blocks),
                         intercepted |-> h.intercepted, ran |-> h.ran,
                         stale |-> h.stale, prevExc |-> h.prevExc,
                         bodyExc |-> da_exc, outExc |-> r.exc,
                         listBefore |-> delayed_assertions, listAfter |-> r.list,
                         failAfter |-> f.old_fail]
    /\ da_blocks' = SubSeq(da_blocks, 1, Len(da_blocks) - 1)
    /\ da_hist' = SubSeq(da_hist, 1, Len(da_hist) - 1)
    /\ da_op' = "exit"
    /\ UNCHANGED notDelayed

\* A variant without the finally clause's self.fail = old_fail: the stand-in
\* stays bound, and the report of the collected failures goes through it.
da_exit_keeps_fail ==
    /\ da_blocks # <<>>
    /\ LET f == da_blocks[Len(da_blocks)]
           h == da_hist[Len(da_hist)]
           r == IF da_exc = NoExc /\ delayed_assertions.items # <<>>
                THEN CallFail(fail, delayed_assertions,
                              ExitMessage(delayed_assertions.items))
                ELSE [list |-> delayed_assertions, exc |-> da_exc]
       IN /\ fail' = fail
          /\ delayed_assertions' = r.list
          /\ da_exc' = r.exc
          /\ da_last' = [done |-> TRUE, depth |-> Len(da_blocks),
                         intercepted |-> h.intercepted, ran |-> h.ran,
                         stale |-> h.stale, prevExc |-> h.prevExc,
                         bodyExc |-> da_exc, outExc |-> r.exc,
                         listBefore |-> delayed_assertions, listAfter |-> r.list,
                         failAfter |-> fail]
    /\ da_blocks' = SubSeq(da_blocks, 1, Len(da_blocks) - 1)
    /\ da_hist' = SubSeq(da_hist, 1, Len(da_hist) - 1)
    /\ da_op' = "exit"
    /\ UNCHANGED notDelayed

\* Leaving the block.  finally: self.fail = old_fail.  When the body raised,
\* the exception goes on; otherwise a non-empty list is reported through
\* self.fail, which is old_fail again.
da_exit ==
    /\ da_blocks # <<>>
    /\ LET f == da_blocks[Len(da_blocks)]
           h == da_hist[Len(da_hist)]
           r == IF da_exc = NoExc /\ delayed_assertions.items # <<>>
                THEN CallFail(f.old_fail, delayed_assertions,
                              ExitMessage(delayed_assertions.items))
                ELSE [list |-> delayed_assertions, exc |-> da_exc]
       IN /\ fail' = f.old_fail
          /\ delayed_assertions' = r.list
          /\ da_exc' = r.exc
          /\ da_last' = [done |-> TRUE, depth |-> Len(da_blocks),
                         intercepted |-> h.intercepted, ran |-> h.ran,
                         stale |-> h.stale, prevExc |-> h.prevExc,
                         bodyExc |-> da_exc, outExc |-> r.exc,
                         listBefore |-> delayed_assertions, listAfter |-> r.list,
                         failAfter |-> f.old_fail]
    /\ da_blocks' = SubSeq(da_blocks, 1, Len(da_blocks) - 1)
    /\ da_hist' = SubSeq(da_hist, 1, Len(da_hist) - 1)
    /\ da_op' = "exit"
    /\ UNCHANGED notDelayed

\* The test catches the exception (with self.assertRaises(...): around the block).
da_catch ==
    /\ da_exc # NoExc
    /\ da_blocks = <<>>
    /\ da_exc' = NoExc
    /\ da_op' = "catch"
    /\ UNCHANGED <<fail, delayed_assertions, da_blocks, da_hist, da_last>>
    /\ UNCHANGED notDelayed

-----------------------------------------------------------------------------
(* TempDirMixin._ClassBehavior *)

\* _ClassBehavior.__init__, with klass set as _class_behavior() sets it.
NewBehavior(klass) ==
    [klass |-> klass, tests |-> 0, skipped |-> 0, temp_dir |-> TRUE,
     no_files_ok |-> FALSE, tests_making_files |-> 0,
     test_method_made_any_files |-> FALSE]

\* "%s: %s ran %d tests, %d made files %s" % (bad, klass.__name__, tests,
\* tests_making_files, "in a temp directory")
BadnessText(bad, b) ==
    bad \o ": " \o b.klass \o " ran " \o ToString(b.tests) \o " tests, "
        \o ToString(b.tests_making_files) \o " made files " \o "in a temp directory"

\* A variant that compares tests < skipped.
badness_strict_skipped(b) ==
    LET bad == IF b.tests < b.skipped THEN ""
               ELSE IF b.temp_dir /\ b.tests_making_files = 0
                    THEN IF ~b.no_files_ok THEN "Inefficient" ELSE ""
                    ELSE ""
    IN IF bad # "" THEN BadnessText(bad, b) ELSE None

\* _ClassBehavior.badness(): a text, or None.
badness(b) ==
    LET bad == IF b.tests <= b.skipped THEN ""
               ELSE IF b.temp_dir /\ b.tests_making_files = 0
                    THEN IF ~b.no_files_ok THEN "Inefficient" ELSE ""
                    ELSE ""
    IN IF bad # "" THEN BadnessText(bad, b) ELSE None

\* badness() is asked about the record.
bd_badness ==
    /\ bd_out = "not asked"
    /\ bd_out' = badness(bd_rec)
    /\ UNCHANGED bd_rec
    /\ UNCHANGED notBadness

-----------------------------------------------------------------------------
(* TempDirMixin *)

\* The test classes and the class attributes they set: run_in_temp_dir and
\* no_files_in_temp_dir, which TempDirMixin reads, and keep_temp_dir, which
\* the class KeepTempDir of the tests sets and no line of mixins.py reads.
ClassConfig ==
    [MadeNoFiles |-> [run_in_temp_dir |-> TRUE, no_files_in_temp_dir |-> FALSE,
                      keep_temp_dir |-> FALSE],
     MadeNoFilesButOk |-> [run_in_temp_dir |-> TRUE, no_files_in_temp_dir |-> TRUE,
                           keep_temp_dir |-> FALSE],
     NoTempDir |-> [run_in_temp_dir |-> FALSE, no_files_in_temp_dir |-> FALSE,
                    keep_temp_dir |-> FALSE],
     KeepTempDir |-> [run_in_temp_dir |-> TRUE, no_files_in_temp_dir |-> FALSE,
                      keep_temp_dir |-> TRUE]]
Classes == DOMAIN ClassConfig

\* sys.modules of a process that has imported nothing of the tests' yet.
StdModules == [m \in {"os", "sys"} |-> "stdlib"]

\* The file texts with `text` written to the file at path.
WriteText(texts, path, text) ==
    [f \in DOMAIN texts \cup {path} |-> IF f = path THEN text ELSE texts[f]]

\* The relative file names passed to make_file.
FileNames == {<<"sub", "another.txt">>}

\* tempfile.gettempdir()
TempRoot == <<"tmp">>

RECURSIVE ZeroPad(_, _)
\* "%08d" % n for n >= 0: at least `width` digits, zeros on the left.
ZeroPad(text, width) == IF Len(text) >= width THEN text ELSE ZeroPad("0" \o text, width)

\* os.path.join(tempfile.gettempdir(), "%s_%08d" % (slug, number))
TempDirPath(slug, number) ==
    Append(TempRoot, slug \o "_" \o ZeroPad(ToString(number), 8))

IsPrefix(p, q) == Len(p) <= Len(q) /\ SubSeq(q, 1, Len(p)) = p

\* The directory part of a relative file name: os.path.split(filename)[0].
DirPart(filename) == SubSeq(filename, 1, Len(filename) - 1)

\* os.makedirs(path): the path and every missing directory above it.
MakeDirs(ds, path) == ds \cup {SubSeq(path, 1, n) : n \in 0..Len(path)}

\* How unittest classifies the exception that ended a test.
Outcome(exc) ==
    IF exc.kind = "none" THEN "success"
    ELSE IF exc.kind = "AssertionError" THEN "failure"
    ELSE IF exc.kind = "SkipTest" THEN "skipped"
    ELSE "error"

SkipTest(reason) == [kind |-> "SkipTest", msg |-> reason]
OtherError(kind) == [kind |-> kind, msg |-> ""]

\* self._class_behavior(): the record of the class, made on first use.
class_behavior(behaviors, klass) ==
    IF klass \in DOMAIN behaviors
    THEN [behaviors[klass] EXCEPT !.klass = klass]
    ELSE NewBehavior(klass)

\* behaviors with the record of klass replaced by b.
WithBehavior(behaviors, klass, b) ==
    [k \in DOMAIN behaviors \cup {klass} |-> IF k = klass THEN b ELSE behaviors[k]]

NoCalls == [skipCalls |-> 0, allSkipped |-> TRUE, makers |-> {}]
CallsOf(klass) == IF klass \in DOMAIN td_calls THEN td_calls[klass] ELSE NoCalls
WithCalls(klass, c) ==
    [k \in DOMAIN td_calls \cup {klass} |-> IF k = klass THEN c ELSE td_calls[k]]

\* What a call left behind: the exception it raised, whether it wrote to the
\* file system, and the record of the class before and after it.
NoCall == [op |-> "none", run_in_temp_dir |-> TRUE, exc |-> NoExc, wrote |-> FALSE,
           before |-> NewBehavior(""), after |-> NewBehavior("")]

NoModOp == [op |-> "none", prev |-> "none", name |-> "", value |-> "", current |-> "",
            before |-> <<>>, after |-> <<>>, old |-> {}]

\* What a cleanup_modules call left behind: the table before and after it
\* and the names of the snapshot.
CleanupOp(before, after, old) ==
    [op |-> "cleanup", prev |-> td_modlog.op, name |-> "", value |-> "", current |-> "",
     before |-> before, after |-> after, old |-> old]

\* The process state before any setUp: nothing recorded.
NoBefore == [taken |-> FALSE, cwd |-> <<>>, dirs |-> {},
             sys_path |-> <<>>, sys_modules |-> <<>>, tests |-> 0]

\* A variant that registers the change back of directory before the removal
\* of the temp directory.
TempDirCleanups_chdir_first(temp_dir, old_dir, klass) ==
    <<[fn |-> "os_chdir", arg |-> old_dir],
      [fn |-> "rmtree", arg |-> temp_dir],
      [fn |-> "check_behavior", arg |-> klass]>>

\* The cleanups TempDirMixin.setUp registers for a test in a temp directory,
\* in the order of the addCleanup calls: shutil.rmtree(temp_dir) in
\* _make_temp_dir, os.chdir(old_dir) in chdir, then self._check_behavior.
TempDirCleanups(temp_dir, old_dir, klass) ==
    <<[fn |-> "rmtree", arg |-> temp_dir],
      [fn |-> "os_chdir", arg |-> old_dir],
      [fn |-> "check_behavior", arg |-> klass]>>

\* A variant of setUp that makes a temporary directory for every class.
td_setUp_always_temp_dir(klass, number) ==
    /\ td_phase = "idle"
    /\ td_tests < MaxTests
    /\ td_tests' = td_tests + 1
    /\ td_ran' = <<>>
    /\ td_direct' = FALSE
    /\ td_edited' = FALSE
    /\ td_class' = klass
    /\ td_errs' = 0
    /\ td_last' = NoCall
    /\ td_before' = [taken |-> TRUE, cwd |-> cwd, dirs |-> dirs,
                     sys_path |-> sys_path, sys_modules |-> sys_modules,
                     tests |-> class_behavior(class_behaviors, klass).tests]
    /\ LET base == <<[fn |-> "cleanup_modules", arg |-> DOMAIN sys_modules],
                     [fn |-> "saved_sys_path_exit", arg |-> sys_path]>>
           temp_dir == TempDirPath("test_cover", number)
           b == class_behavior(class_behaviors, klass)
           counted == [b EXCEPT !.tests = @ + 1,
                                !.temp_dir = ClassConfig[klass].run_in_temp_dir,
                                !.no_files_ok = ClassConfig[klass].no_files_in_temp_dir]
       IN IF FALSE
          THEN /\ td_cleanups' = Append(base, [fn |-> "check_behavior", arg |-> klass])
               /\ class_behaviors' = WithBehavior(class_behaviors, klass, counted)
               /\ td_phase' = "body"
               /\ td_exc' = NoExc
               /\ UNCHANGED <<cwd, dirs, sys_path, td_temp_dir, td_paths, td_given>>
          ELSE IF temp_dir \in dirs
          THEN \* os.makedirs raises: setUp ends, the cleanups registered so far run
               /\ td_cleanups' = base
               /\ td_phase' = "cleanup"
               /\ td_exc' = OtherError("OSError")
               /\ UNCHANGED <<cwd, dirs, sys_path, td_temp_dir, td_paths, td_given, class_behaviors>>
          ELSE /\ dirs' = MakeDirs(dirs, temp_dir)
               /\ td_temp_dir' = temp_dir
               /\ td_paths' = td_paths \cup {temp_dir}
               /\ td_given' = td_given + 1
               /\ cwd' = temp_dir
               /\ sys_path' = <<temp_dir>> \o sys_path
               /\ td_cleanups' = base \o TempDirCleanups(temp_dir, os_getcwd, klass)
               /\ class_behaviors' = WithBehavior(class_behaviors, klass, counted)
               /\ td_phase' = "body"
               /\ td_exc' = NoExc
    /\ UNCHANGED <<files, file_text, sys_modules, td_calls, td_modlog, mc_old>>
    /\ UNCHANGED notTempDir

\* setUp of a test of class klass, through the whole chain of setUp methods:
\* ModuleAwareMixin (lines 123-127), SysPathAwareMixin (136-138, 72, 98-99),
\* then TempDirMixin (313-332) with _make_temp_dir (341-347) and chdir (354-358).
\* `number` is what random.randint returns.
td_setUp(klass, number) ==
    /\ td_phase = "idle"
    /\ td_tests < MaxTests
    /\ td_tests' = td_tests + 1
    /\ td_ran' = <<>>
    /\ td_direct' = FALSE
    /\ td_edited' = FALSE
    /\ td_class' = klass
    /\ td_errs' = 0
    /\ td_last' = NoCall
    /\ td_before' = [taken |-> TRUE, cwd |-> cwd, dirs |-> dirs,
                     sys_path |-> sys_path, sys_modules |-> sys_modules,
                     tests |-> class_behavior(class_behaviors, klass).tests]
    /\ LET base == <<[fn |-> "cleanup_modules", arg |-> DOMAIN sys_modules],
                     [fn |-> "saved_sys_path_exit", arg |-> sys_path]>>
           temp_dir == TempDirPath("test_cover", number)
           b == class_behavior(class_behaviors, klass)
           counted == [b EXCEPT !.tests = @ + 1,
                                !.temp_dir = ClassConfig[klass].run_in_temp_dir,
                                !.no_files_ok = ClassConfig[klass].no_files_in_temp_dir]
       IN IF ~ClassConfig[klass].run_in_temp_dir
          THEN /\ td_cleanups' = Append(base, [fn |-> "check_behavior", arg |-> klass])
               /\ class_behaviors' = WithBehavior(class_behaviors, klass, counted)
               /\ td_phase' = "body"
               /\ td_exc' = NoExc
               /\ UNCHANGED <<cwd, dirs, sys_path, td_temp_dir, td_paths, td_given>>
          ELSE IF temp_dir \in dirs
          THEN \* os.makedirs raises: setUp ends, the cleanups registered so far run
               /\ td_cleanups' = base
               /\ td_phase' = "cleanup"
               /\ td_exc' = OtherError("OSError")
               /\ UNCHANGED <<cwd, dirs, sys_path, td_temp_dir, td_paths, td_given, class_behaviors>>
          ELSE /\ dirs' = MakeDirs(dirs, temp_dir)
               /\ td_temp_dir' = temp_dir
               /\ td_paths' = td_paths \cup {temp_dir}
               /\ td_given' = td_given + 1
               /\ cwd' = temp_dir
               /\ sys_path' = <<temp_dir>> \o sys_path
               /\ td_cleanups' = base \o TempDirCleanups(temp_dir, os_getcwd, klass)
               /\ class_behaviors' = WithBehavior(class_behaviors, klass, counted)
               /\ td_phase' = "body"
               /\ td_exc' = NoExc
    /\ UNCHANGED <<files, file_text, sys_modules, td_calls, td_modlog, mc_old>>
    /\ UNCHANGED notTempDir

\* A variant of make_file without the check of run_in_temp_dir.
td_make_file_unchecked(filename, text) ==
    /\ td_phase = "body"
    /\ LET b == class_behavior(class_behaviors, td_class)
           made == WithBehavior(class_behaviors, td_class,
                                [b EXCEPT !.test_method_made_any_files = TRUE])
           target == cwd \o filename
           newDirs == IF DirPart(filename) # <<>> /\ cwd \o DirPart(filename) \notin dirs
                      THEN MakeDirs(dirs, cwd \o DirPart(filename))
                      ELSE dirs
       IN /\ class_behaviors' = made
          /\ dirs' = newDirs
          /\ files' = files \cup {target}
          /\ file_text' = WriteText(file_text, target, text)
          /\ td_last' = [op |-> "make_file",
                         run_in_temp_dir |-> ClassConfig[td_class].run_in_temp_dir,
                         exc |-> NoExc, wrote |-> TRUE,
                         before |-> b, after |-> made[td_class]]
          /\ td_calls' = WithCalls(td_class,
                                   [CallsOf(td_class) EXCEPT !.makers = @ \cup {td_tests}])
          /\ UNCHANGED <<td_phase, td_exc>>
    /\ UNCHANGED <<cwd, sys_path, sys_modules, td_class, td_temp_dir, td_cleanups,
                   td_errs, td_tests, td_ran, mc_old, td_edited, td_modlog, td_direct, td_before, td_paths, td_given>>
    /\ UNCHANGED notTempDir

\* self.make_file(filename, ...): assert self.run_in_temp_dir, "Should only use
\* make_file in temp directories"; mark the class record; then the module's
\* make_file (lines 280-288) makes the missing directories and writes the file.
td_make_file(filename, text) ==
    /\ td_phase = "body"
    /\ IF ~ClassConfig[td_class].run_in_temp_dir
       THEN LET exc == AssertionError("Should only use make_file in temp directories") IN
            /\ td_exc' = exc
            /\ td_phase' = "cleanup"
            /\ td_last' = [op |-> "make_file", run_in_temp_dir |-> FALSE, exc |-> exc,
                           wrote |-> FALSE,
                           before |-> class_behaviors[td_class],
                           after |-> class_behaviors[td_class]]
            /\ td_calls' = WithCalls(td_class, [CallsOf(td_class) EXCEPT !.allSkipped = FALSE])
            /\ UNCHANGED <<class_behaviors, dirs, files, file_text>>
       ELSE LET b == class_behavior(class_behaviors, td_class)
                made == WithBehavior(class_behaviors, td_class,
                                     [b EXCEPT !.test_method_made_any_files = TRUE])
                target == cwd \o filename
                newDirs == IF DirPart(filename) # <<>> /\ cwd \o DirPart(filename) \notin dirs
                           THEN MakeDirs(dirs, cwd \o DirPart(filename))
                           ELSE dirs
            IN /\ class_behaviors' = made
               /\ dirs' = newDirs
               /\ files' = files \cup {target}
               /\ file_text' = WriteText(file_text, target, text)
               /\ td_last' = [op |-> "make_file", run_in_temp_dir |-> TRUE, exc |-> NoExc,
                              wrote |-> TRUE,
                              before |-> b, after |-> made[td_class]]
               /\ td_calls' = WithCalls(td_class,
                                        [CallsOf(td_class) EXCEPT !.makers = @ \cup {td_tests}])
               /\ UNCHANGED <<td_phase, td_exc>>
    /\ UNCHANGED <<cwd, sys_path, sys_modules, td_class, td_temp_dir, td_cleanups,
                   td_errs, td_tests, td_ran, mc_old, td_edited, td_modlog, td_direct, td_before, td_paths, td_given>>
    /\ UNCHANGED notTempDir

\* A variant of skipTest that signals the skip without counting it.
td_skipTest_uncounted ==
    /\ td_phase = "body"
    /\ td_exc' = SkipTest("I feel like it")
    /\ td_phase' = "cleanup"
    /\ td_last' = [op |-> "skipTest",
                   run_in_temp_dir |-> ClassConfig[td_class].run_in_temp_dir,
                   exc |-> SkipTest("I feel like it"), wrote |-> FALSE,
                   before |-> class_behaviors[td_class],
                   after |-> class_behaviors[td_class]]
    /\ td_calls' = WithCalls(td_class, [CallsOf(td_class) EXCEPT !.skipCalls = @ + 1])
    /\ UNCHANGED <<cwd, dirs, files, sys_path, sys_modules, class_behaviors, td_class,
                   td_temp_dir, td_cleanups, td_errs, td_tests, td_ran, mc_old, td_edited, td_modlog, file_text, td_direct, td_before, td_paths, td_given>>
    /\ UNCHANGED notTempDir

\* self.skipTest(reason): self._class_behavior().skipped += 1, then
\* TestCase.skipTest raises SkipTest, which ends the test body.
td_skipTest ==
    /\ td_phase = "body"
    /\ LET b == class_behavior(class_behaviors, td_class)
           counted == WithBehavior(class_behaviors, td_class, [b EXCEPT !.skipped = @ + 1])
       IN /\ class_behaviors' = counted
          /\ td_last' = [op |-> "skipTest",
                         run_in_temp_dir |-> ClassConfig[td_class].run_in_temp_dir,
                         exc |-> SkipTest("I feel like it"), wrote |-> FALSE,
                         before |-> b, after |-> counted[td_class]]
    /\ td_exc' = SkipTest("I feel like it")
    /\ td_phase' = "cleanup"
    /\ td_calls' = WithCalls(td_class, [CallsOf(td_class) EXCEPT !.skipCalls = @ + 1])
    /\ UNCHANGED <<cwd, dirs, files, sys_path, sys_modules, td_class, td_temp_dir,
                   td_cleanups, td_errs, td_tests, td_ran, mc_old, td_edited, td_modlog, file_text, td_direct, td_before, td_paths, td_given>>
    /\ UNCHANGED notTempDir

\* The directories a test body passes to self.chdir.
BodyChdirArgs == {AbsPath(Here), RelPath(<<"sub">>)}

\* The os.chdir cleanups registered so far.
ChdirCleanups == Cardinality({i \in 1..Len(td_cleanups) : td_cleanups[i].fn = "os_chdir"})

\* A variant of self.chdir that registers no cleanup.
td_chdir_no_cleanup(new_dir) ==
    /\ td_phase = "body"
    /\ ChdirCleanups < MaxChdir + 1
    /\ IF chdir_ok(new_dir)
       THEN /\ cwd' = Resolve(cwd, new_dir)
            /\ UNCHANGED <<td_phase, td_exc, td_calls, td_cleanups>>
       ELSE /\ td_exc' = OtherError("OSError")
            /\ td_phase' = "cleanup"
            /\ td_calls' = WithCalls(td_class, [CallsOf(td_class) EXCEPT !.allSkipped = FALSE])
            /\ UNCHANGED <<cwd, td_cleanups>>
    /\ UNCHANGED <<dirs, files, sys_path, sys_modules, class_behaviors, td_class,
                   td_temp_dir, td_errs, td_tests, td_ran, mc_old, td_edited, td_modlog, file_text, td_direct, td_before, td_paths,
                   td_given, td_last>>
    /\ UNCHANGED notTempDir

\* self.chdir(new_dir): old_dir = os.getcwd(); os.chdir(new_dir);
\* self.addCleanup(os.chdir, old_dir).  A failing os.chdir ends the body.
td_chdir(new_dir) ==
    /\ td_phase = "body"
    /\ ChdirCleanups < MaxChdir + 1
    /\ IF chdir_ok(new_dir)
       THEN /\ cwd' = Resolve(cwd, new_dir)
            /\ td_cleanups' = Append(td_cleanups, [fn |-> "os_chdir", arg |-> os_getcwd])
            /\ UNCHANGED <<td_phase, td_exc, td_calls>>
       ELSE /\ td_exc' = OtherError("OSError")
            /\ td_phase' = "cleanup"
            /\ td_calls' = WithCalls(td_class, [CallsOf(td_class) EXCEPT !.allSkipped = FALSE])
            /\ UNCHANGED <<cwd, td_cleanups>>
    /\ UNCHANGED <<dirs, files, sys_path, sys_modules, class_behaviors, td_class,
                   td_temp_dir, td_errs, td_tests, td_ran, mc_old, td_edited, td_modlog, file_text, td_direct, td_before, td_paths, td_given, td_last>>
    /\ UNCHANGED notTempDir

\* A variant of cleanup_modules that deletes nothing.
cleanup_modules_keeps(modules, old_modules) == modules

\* A variant of cleanup_modules that deletes while it iterates over
\* sys.modules: the first new name is deleted and the loop ends there.
cleanup_modules_one(modules, old_modules) ==
    LET new == {n \in DOMAIN modules : n \notin old_modules} IN
    IF new = {} THEN modules
    ELSE [m \in DOMAIN modules \ {CHOOSE n \in new : TRUE} |-> modules[m]]

\* ModuleCleaner.cleanup_modules(): delete from sys.modules the names that are
\* not in _old_modules.
cleanup_modules(modules, old_modules) ==
    [m \in {n \in DOMAIN modules : n \in old_modules} |-> modules[m]]

\* The module names the test bodies import, and the texts of their files.
ModuleNames == {"xyzzy"}
ModuleTexts == {"A = 17", "A = 42"}
ModuleFile(name) == <<name \o ".py">>

\* The import system's search: the file of `name` in the first directory of
\* sys.path that has one; <<>> when there is none.
FindModule(path, name) ==
    LET hits == {i \in 1..Len(path) : path[i] \o ModuleFile(name) \in files} IN
    IF hits = {} THEN <<>>
    ELSE path[CHOOSE i \in hits : \A k \in hits : i <= k] \o ModuleFile(name)

\* The test body runs `import name`: the module cached in sys.modules under
\* the name, or else the one loaded from the first file found on sys.path,
\* which is then cached; ImportError when there is no file ends the body.
td_import(name) ==
    /\ td_phase = "body"
    /\ LET found == FindModule(sys_path, name) IN
       IF name \in DOMAIN sys_modules
       THEN /\ td_modlog' = [op |-> "import", prev |-> td_modlog.op, name |-> name,
                             value |-> sys_modules[name],
                             current |-> IF found = <<>> THEN "" ELSE file_text[found],
                             before |-> sys_modules, after |-> sys_modules,
                             old |-> td_modlog.old]
            /\ UNCHANGED <<sys_modules, td_phase, td_exc, td_calls>>
       ELSE IF found = <<>>
       THEN /\ td_exc' = OtherError("ImportError")
            /\ td_phase' = "cleanup"
            /\ td_calls' = WithCalls(td_class, [CallsOf(td_class) EXCEPT !.allSkipped = FALSE])
            /\ UNCHANGED <<sys_modules, td_modlog>>
       ELSE LET loaded == [m \in DOMAIN sys_modules \cup {name} |->
                               IF m = name THEN file_text[found] ELSE sys_modules[m]] IN
            /\ sys_modules' = loaded
            /\ td_modlog' = [op |-> "import", prev |-> td_modlog.op, name |-> name,
                             value |-> file_text[found], current |-> file_text[found],
                             before |-> sys_modules, after |-> loaded,
                             old |-> td_modlog.old]
            /\ UNCHANGED <<td_phase, td_exc, td_calls>>
    /\ UNCHANGED <<cwd, dirs, files, file_text, sys_path, class_behaviors, td_class,
                   td_temp_dir, td_cleanups, td_errs, td_tests, td_ran, mc_old, td_edited, td_direct, td_before,
                   td_paths, td_given, td_last>>
    /\ UNCHANGED notTempDir

\* The test body calls self.cleanup_modules(): the cleanup_modules of the
\* ModuleCleaner made in setUp, the one registered as the first cleanup.
td_cleanup_modules ==
    /\ td_phase = "body"
    /\ LET old == td_cleanups[1].arg
           after == cleanup_modules(sys_modules, old)
       IN /\ sys_modules' = after
          /\ td_modlog' = CleanupOp(sys_modules, after, old)
    /\ UNCHANGED <<cwd, dirs, files, file_text, sys_path, class_behaviors, td_class,
                   td_temp_dir, td_cleanups, td_errs, td_tests, td_ran, mc_old, td_edited, td_direct, td_before,
                   td_paths, td_given, td_last, td_phase, td_exc, td_calls>>
    /\ UNCHANGED notTempDir

\* No ModuleCleaner has been made.
NoCleaner == [made |-> FALSE, old_modules |-> {}]

\* The names imported by code that uses a ModuleCleaner of its own.
CleanerNames == {"xyzzy", "plugh"}

\* The module tables a ModuleCleaner can be made in: the standard modules
\* and any of the other names already imported.
CleanerTables ==
    {[m \in DOMAIN StdModules \cup DOMAIN t |-> IF m \in DOMAIN t THEN t[m] ELSE StdModules[m]] :
        t \in UNION {[D -> ModuleTexts] : D \in SUBSET CleanerNames}}

\* cleaner = ModuleCleaner(): self._old_modules = list(sys.modules)
mc_new ==
    /\ ~mc_old.made
    /\ mc_old' = [made |-> TRUE, old_modules |-> DOMAIN sys_modules]
    /\ UNCHANGED <<cwd, dirs, files, file_text, sys_path, sys_modules, class_behaviors,
                   td_phase, td_class, td_temp_dir, td_cleanups, td_exc, td_errs, td_tests, td_ran,
                   td_direct, td_edited, td_before, td_paths, td_given, td_calls, td_last,
                   td_modlog>>
    /\ UNCHANGED notTempDir

\* `import name` while the file of the module has the text `text`: the
\* module cached under the name, or else the one loaded now, which is cached.
mc_import(name, text) ==
    /\ LET loaded == [m \in DOMAIN sys_modules \cup {name} |->
                          IF m = name THEN text ELSE sys_modules[m]]
           after == IF name \in DOMAIN sys_modules THEN sys_modules ELSE loaded
       IN /\ sys_modules' = after
          /\ td_modlog' = [op |-> "import", prev |-> td_modlog.op, name |-> name,
                           value |-> after[name], current |-> text,
                           before |-> sys_modules, after |-> after,
                           old |-> td_modlog.old]
    /\ UNCHANGED <<cwd, dirs, files, file_text, sys_path, class_behaviors,
                   td_phase, td_class, td_temp_dir, td_cleanups, td_exc, td_errs, td_tests, td_ran,
                   td_direct, td_edited, td_before, td_paths, td_given, td_calls, td_last,
                   mc_old>>
    /\ UNCHANGED notTempDir

\* cleaner.cleanup_modules()
mc_cleanup ==
    /\ mc_old.made
    /\ LET after == cleanup_modules(sys_modules, mc_old.old_modules) IN
       /\ sys_modules' = after
       /\ td_modlog' = CleanupOp(sys_modules, after, mc_old.old_modules)
    /\ UNCHANGED <<cwd, dirs, files, file_text, sys_path, class_behaviors,
                   td_phase, td_class, td_temp_dir, td_cleanups, td_exc, td_errs, td_tests, td_ran,
                   td_direct, td_edited, td_before, td_paths, td_given, td_calls, td_last,
                   mc_old>>
    /\ UNCHANGED notTempDir

\* The directories a test body inserts in sys.path.
SysPathArgs == {Here}

\* The test body runs sys.path.insert(0, d).
td_sys_path_insert(d) ==
    /\ td_phase = "body"
    /\ Len(sys_path) < MaxPathLen
    /\ sys_path' = <<d>> \o sys_path
    /\ td_edited' = TRUE
    /\ UNCHANGED <<cwd, dirs, files, file_text, sys_modules, class_behaviors, td_class,
                   td_temp_dir, td_cleanups, td_errs, td_tests, td_ran, mc_old, td_direct, td_before,
                   td_paths, td_given, td_last, td_phase, td_exc, td_calls, td_modlog>>
    /\ UNCHANGED notTempDir

\* The test body runs del sys.path[0].
td_sys_path_del ==
    /\ td_phase = "body"
    /\ sys_path # <<>>
    /\ sys_path' = Tail(sys_path)
    /\ td_edited' = TRUE
    /\ UNCHANGED <<cwd, dirs, files, file_text, sys_modules, class_behaviors, td_class,
                   td_temp_dir, td_cleanups, td_errs, td_tests, td_ran, mc_old, td_direct, td_before,
                   td_paths, td_given, td_last, td_phase, td_exc, td_calls, td_modlog>>
    /\ UNCHANGED notTempDir

\* The directories a test body passes to os.chdir.
OsChdirArgs == {AbsPath(Here), AbsPath(TempRoot)}

\* The test body calls os.chdir(new_dir) itself: no cleanup is registered.
\* A failing os.chdir ends the body.
td_os_chdir(new_dir) ==
    /\ td_phase = "body"
    /\ IF chdir_ok(new_dir)
       THEN /\ cwd' = Resolve(cwd, new_dir)
            /\ td_direct' = TRUE
            /\ UNCHANGED <<td_phase, td_exc, td_calls>>
       ELSE /\ td_exc' = OtherError("OSError")
            /\ td_phase' = "cleanup"
            /\ td_calls' = WithCalls(td_class, [CallsOf(td_class) EXCEPT !.allSkipped = FALSE])
            /\ UNCHANGED <<cwd, td_direct>>
    /\ UNCHANGED <<dirs, files, sys_path, sys_modules, class_behaviors, td_class,
                   td_temp_dir, td_cleanups, td_errs, td_tests, td_ran, mc_old, td_edited, td_modlog, file_text, td_before, td_paths,
                   td_given, td_last>>
    /\ UNCHANGED notTempDir

\* The test body ends without calling skipTest: it returns, fails an
\* assertion (assert 1 == 0) or raises (raise Exception("Boom")).
td_body_ends(exc) ==
    /\ td_phase = "body"
    /\ td_exc' = exc
    /\ td_phase' = "cleanup"
    /\ td_calls' = WithCalls(td_class, [CallsOf(td_class) EXCEPT !.allSkipped = FALSE])
    /\ UNCHANGED <<cwd, dirs, files, sys_path, sys_modules, class_behaviors, td_class,
                   td_temp_dir, td_cleanups, td_errs, td_tests, td_ran, mc_old, td_edited, td_modlog, file_text, td_direct, td_before, td_paths, td_given, td_last>>
    /\ UNCHANGED notTempDir

BodyEndings == {NoExc, AssertionError("assert 1 == 0"), OtherError("Exception")}

\* A variant of the usage-count update that counts a test that made files twice.
check_behavior_counts_twice(behaviors, klass) ==
    LET b == class_behavior(behaviors, klass) IN
    WithBehavior(behaviors, klass,
                 IF b.test_method_made_any_files
                 THEN [b EXCEPT !.tests_making_files = @ + 2]
                 ELSE b)

\* _check_behavior(): count the test when the class record says a file was made.
check_behavior(behaviors, klass) ==
    LET b == class_behavior(behaviors, klass) IN
    WithBehavior(behaviors, klass,
                 IF b.test_method_made_any_files
                 THEN [b EXCEPT !.tests_making_files = @ + 1]
                 ELSE b)

\* A variant of rmtree that removes nothing.
RmTree_keeps(paths, path) == paths

\* shutil.rmtree(path): the directory and everything below it.
RmTree(paths, path) == {q \in paths : ~IsPrefix(path, q)}

\* A variant of saved_sys_path that keeps no copy: old_syspath is sys.path
\* itself, and what the body did to the list stays.
saved_sys_path_exit_alias(current, old_syspath) == current

\* saved_sys_path, the finally clause: sys.path = old_syspath.
saved_sys_path_exit(current, old_syspath) == old_syspath

\* TestCase.doCleanups(), one cleanup at a time, last registered first; a
\* cleanup that raises is recorded and the others still run.
td_doCleanup ==
    /\ td_phase = "cleanup"
    /\ td_cleanups # <<>>
    /\ LET c == td_cleanups[Len(td_cleanups)]
           rest == SubSeq(td_cleanups, 1, Len(td_cleanups) - 1)
       IN /\ td_cleanups' = rest
          /\ td_phase' = IF rest = <<>> THEN "finished" ELSE "cleanup"
          /\ td_ran' = Append(td_ran, [fn |-> c.fn,
                                       in_cwd |-> c.fn = "rmtree" /\ IsPrefix(c.arg, cwd)])
          /\ td_modlog' = IF c.fn = "cleanup_modules"
                          THEN CleanupOp(sys_modules, cleanup_modules(sys_modules, c.arg), c.arg)
                          ELSE td_modlog
          /\ CASE c.fn = "check_behavior" ->
                    /\ class_behaviors' = check_behavior(class_behaviors, c.arg)
                    /\ UNCHANGED <<cwd, dirs, files, file_text, sys_path, sys_modules, td_errs>>
               [] c.fn = "os_chdir" ->
                    /\ IF chdir_ok(c.arg)
                       THEN cwd' = Resolve(cwd, c.arg) /\ UNCHANGED td_errs
                       ELSE td_errs' = td_errs + 1 /\ UNCHANGED cwd
                    /\ UNCHANGED <<dirs, files, file_text, sys_path, sys_modules, class_behaviors>>
               [] c.fn = "rmtree" ->
                    /\ IF c.arg \in dirs
                       THEN /\ dirs' = RmTree(dirs, c.arg)
                            /\ files' = RmTree(files, c.arg)
                            /\ file_text' = [f \in RmTree(DOMAIN file_text, c.arg) |-> file_text[f]]
                            /\ UNCHANGED td_errs
                       ELSE td_errs' = td_errs + 1 /\ UNCHANGED <<dirs, files, file_text>>
                    /\ UNCHANGED <<cwd, sys_path, sys_modules, class_behaviors>>
               [] c.fn = "saved_sys_path_exit" ->
                    /\ sys_path' = saved_sys_path_exit(sys_path, c.arg)
                    /\ UNCHANGED <<cwd, dirs, files, file_text, sys_modules, class_behaviors, td_errs>>
               [] c.fn = "cleanup_modules" ->
                    /\ sys_modules' = cleanup_modules(sys_modules, c.arg)
                    /\ UNCHANGED <<cwd, dirs, files, file_text, sys_path, class_behaviors, td_errs>>
    /\ UNCHANGED <<td_class, td_temp_dir, td_exc, td_tests, mc_old, td_edited, td_direct, td_before, td_paths, td_given, td_calls, td_last>>
    /\ UNCHANGED notTempDir

\* The test is over and its TestCase instance is dropped; what stays is the
\* state of the process.
td_discard ==
    /\ td_phase = "finished"
    /\ td_phase' = "idle"
    /\ td_class' = ""
    /\ td_temp_dir' = <<>>
    /\ td_exc' = NoExc
    /\ td_errs' = 0
    /\ td_last' = NoCall
    /\ td_before' = NoBefore
    /\ td_direct' = FALSE
    /\ td_edited' = FALSE
    /\ td_modlog' = NoModOp
    /\ td_ran' = <<>>
    /\ UNCHANGED <<cwd, dirs, files, sys_path, sys_modules, class_behaviors,
                   td_cleanups, td_tests, mc_old, file_text, td_paths, td_given, td_calls>>
    /\ UNCHANGED notTempDir

-----------------------------------------------------------------------------
(* StdStreamCapturingMixin *)

\* A stream object: a real file, a six.StringIO or a _Tee of other streams.
\* `data` is everything written to a file or StringIO so far.
RealFile == [kind |-> "file", data |-> "", files |-> <<>>]
StringIO == [kind |-> "StringIO", data |-> "", files |-> <<>>]
Tee(fs) == [kind |-> "_Tee", data |-> "", files |-> fs]

\* The streams of a process started from a terminal: stdout is 1, stderr is 2.
RealStreams == <<RealFile, RealFile>>

\* The texts the test bodies write.
WriteData == {"Xyzzy", "Plugh"}

RECURSIVE Write(_, _, _)
RECURSIVE WriteEach(_, _, _)
\* _Tee.write: for f in self._files: f.write(data), in order.
WriteEach(ss, fs, data) ==
    IF fs = <<>> THEN ss
    ELSE WriteEach(Write(ss, Head(fs), data), Tail(fs), data)

\* A variant of write in which a _Tee writes to its first file only.
Write_first_only(ss, id, data) ==
    IF ss[id].kind = "_Tee"
    THEN WriteEach(ss, <<Head(ss[id].files)>>, data)
    ELSE [ss EXCEPT ![id].data = @ \o data]

\* stream.write(data) on the stream object numbered id.
Write(ss, id, data) ==
    IF ss[id].kind = "_Tee"
    THEN WriteEach(ss, ss[id].files, data)
    ELSE [ss EXCEPT ![id].data = @ \o data]

\* StringIO.getvalue()
getvalue(ss, id) == ss[id].data

NoCaptured == [stdout |-> 0, stderr |-> 0]
NoStreamsBefore == [taken |-> FALSE, stdout |-> 0, stderr |-> 0, streams |-> <<>>]
NothingWritten == [stdout |-> "", stderr |-> "", count |-> 0]
NoRead == [op |-> "none", value |-> "", written |-> ""]

\* StdStreamCapturingMixin.setUp: sys.stdout becomes a _Tee of the current
\* sys.stdout and a new StringIO, sys.stderr a second new StringIO; the
\* cleanup is registered with the two old streams.
ss_setUp ==
    /\ ss_phase = "idle"
    /\ ss_tests < MaxTests
    /\ ss_tests' = ss_tests + 1
    /\ LET n == Len(streams)
           old_stdout == sys_stdout
           captured_stdout == n + 1
           tee == n + 2
           old_stderr == sys_stderr
           captured_stderr == n + 3
       IN /\ streams' = streams \o <<StringIO, Tee(<<sys_stdout, captured_stdout>>), StringIO>>
          /\ sys_stdout' = tee
          /\ sys_stderr' = captured_stderr
          /\ ss_captured' = [stdout |-> captured_stdout, stderr |-> captured_stderr]
          /\ ss_cleanups' = <<[fn |-> "cleanup_std_streams",
                               old_stdout |-> old_stdout, old_stderr |-> old_stderr]>>
    /\ ss_before' = [taken |-> TRUE, stdout |-> sys_stdout, stderr |-> sys_stderr,
                     streams |-> streams]
    /\ ss_written' = NothingWritten
    /\ ss_read' = NoRead
    /\ ss_phase' = "body"
    /\ ss_exc' = NoExc
    /\ UNCHANGED notStreams

\* The test body runs sys.stdout.write(data).
ss_write_stdout(data) ==
    /\ ss_phase = "body"
    /\ ss_written.count < MaxWrites
    /\ streams' = Write(streams, sys_stdout, data)
    /\ ss_written' = [ss_written EXCEPT !.stdout = @ \o data, !.count = @ + 1]
    /\ UNCHANGED <<sys_stdout, sys_stderr, ss_phase, ss_captured, ss_cleanups, ss_exc,
                   ss_tests, ss_before, ss_read>>
    /\ UNCHANGED notStreams

\* The test body runs sys.stderr.write(data).
ss_write_stderr(data) ==
    /\ ss_phase = "body"
    /\ ss_written.count < MaxWrites
    /\ streams' = Write(streams, sys_stderr, data)
    /\ ss_written' = [ss_written EXCEPT !.stderr = @ \o data, !.count = @ + 1]
    /\ UNCHANGED <<sys_stdout, sys_stderr, ss_phase, ss_captured, ss_cleanups, ss_exc,
                   ss_tests, ss_before, ss_read>>
    /\ UNCHANGED notStreams

\* self.stdout(): self.captured_stdout.getvalue()
ss_stdout ==
    /\ ss_phase = "body"
    /\ ss_read' = [op |-> "stdout", value |-> getvalue(streams, ss_captured.stdout),
                   written |-> ss_written.stdout]
    /\ UNCHANGED <<sys_stdout, sys_stderr, streams, ss_phase, ss_captured, ss_cleanups,
                   ss_exc, ss_tests, ss_before, ss_written>>
    /\ UNCHANGED notStreams

\* self.stderr(): self.captured_stderr.getvalue()
ss_stderr ==
    /\ ss_phase = "body"
    /\ ss_read' = [op |-> "stderr", value |-> getvalue(streams, ss_captured.stderr),
                   written |-> ss_written.stderr]
    /\ UNCHANGED <<sys_stdout, sys_stderr, streams, ss_phase, ss_captured, ss_cleanups,
                   ss_exc, ss_tests, ss_before, ss_written>>
    /\ UNCHANGED notStreams

\* The test body ends: it returns, fails an assertion, raises, or is skipped.
ss_body_ends(exc) ==
    /\ ss_phase = "body"
    /\ ss_exc' = exc
    /\ ss_phase' = "cleanup"
    /\ UNCHANGED <<sys_stdout, sys_stderr, streams, ss_captured, ss_cleanups, ss_tests,
                   ss_before, ss_written, ss_read>>
    /\ UNCHANGED notStreams

\* A variant of the cleanup that puts back sys.stdout only.
ss_cleanup_stdout_only ==
    /\ ss_phase = "cleanup"
    /\ ss_cleanups # <<>>
    /\ sys_stdout' = ss_cleanups[Len(ss_cleanups)].old_stdout
    /\ ss_cleanups' = SubSeq(ss_cleanups, 1, Len(ss_cleanups) - 1)
    /\ ss_phase' = "finished"
    /\ UNCHANGED <<sys_stderr, streams, ss_captured, ss_exc, ss_tests, ss_before,
                   ss_written, ss_read>>
    /\ UNCHANGED notStreams

\* TestCase.doCleanups(): _cleanup_std_streams(old_stdout, old_stderr).
ss_cleanup ==
    /\ ss_phase = "cleanup"
    /\ ss_cleanups # <<>>
    /\ LET c == ss_cleanups[Len(ss_cleanups)] IN
       /\ sys_stdout' = c.old_stdout
       /\ sys_stderr' = c.old_stderr
    /\ ss_cleanups' = SubSeq(ss_cleanups, 1, Len(ss_cleanups) - 1)
    /\ ss_phase' = "finished"
    /\ UNCHANGED <<streams, ss_captured, ss_exc, ss_tests, ss_before, ss_written, ss_read>>
    /\ UNCHANGED notStreams

\* The test is over and its TestCase instance is dropped, and with it the
\* StringIOs and the _Tee it made; the other streams keep what was written.
ss_discard ==
    /\ ss_phase = "finished"
    /\ ss_phase' = "idle"
    /\ streams' = SubSeq(streams, 1, Len(ss_before.streams))
    /\ ss_captured' = NoCaptured
    /\ ss_exc' = NoExc
    /\ ss_before' = NoStreamsBefore
    /\ ss_written' = NothingWritten
    /\ ss_read' = NoRead
    /\ UNCHANGED <<sys_stdout, sys_stderr, ss_cleanups, ss_tests>>
    /\ UNCHANGED notStreams

-----------------------------------------------------------------------------
(* Specifications: one per part of the library, the other parts at rest *)

NextChangeDir ==
    \/ \E p \in PathArgs : change_dir_enter(p)
    \/ \E p \in PathArgs : cd_body_chdir(p)
    \/ cd_body_raise
    \/ change_dir_exit
    \/ cd_catch

\* The directories of ChangeDirTest, no scope open.
InitChangeDir ==
    /\ cwd = Here
    /\ dirs = InitDirs
    /\ cd_frames = <<>>
    /\ cd_exc = FALSE
    /\ cd_hist = <<>>
    /\ cd_last = NoExit
    /\ environ = [n \in EnvNames |-> None]
    /\ environ_undos = <<>>
    /\ env_phase = "idle"
    /\ env_err = FALSE
    /\ env_log = <<>>
    /\ env_del = NoDel
    /\ fail = "TestCase.fail"
    /\ delayed_assertions = NoList
    /\ da_blocks = <<>>
    /\ da_exc = NoExc
    /\ da_hist = <<>>
    /\ da_op = "new_test"
    /\ da_last = NoBlockExit
    /\ files = {}
    /\ sys_path = <<<<"usr", "lib">>>>
    /\ sys_modules = StdModules
    /\ class_behaviors = <<>>
    /\ td_phase = "idle"
    /\ td_class = ""
    /\ td_temp_dir = <<>>
    /\ td_cleanups = <<>>
    /\ td_exc = NoExc
    /\ td_errs = 0
    /\ td_tests = 0
    /\ td_paths = {}
    /\ td_given = 0
    /\ td_calls = <<>>
    /\ td_last = NoCall
    /\ td_before = NoBefore
    /\ td_ran = <<>>
    /\ mc_old = NoCleaner
    /\ td_edited = FALSE
    /\ td_modlog = NoModOp
    /\ file_text = <<>>
    /\ td_direct = FALSE
    /\ bd_rec = NewBehavior("MadeNoFiles")
    /\ bd_out = "not asked"
    /\ sys_stdout = 1
    /\ sys_stderr = 2
    /\ streams = RealStreams
    /\ ss_phase = "idle"
    /\ ss_captured = NoCaptured
    /\ ss_cleanups = <<>>
    /\ ss_exc = NoExc
    /\ ss_tests = 0
    /\ ss_before = NoStreamsBefore
    /\ ss_written = NothingWritten
    /\ ss_read = NoRead

SpecChangeDir == InitChangeDir /\ [][NextChangeDir]_vars

NextEnviron ==
    \/ env_setUp
    \/ \E n \in EnvNames, v \in EnvValues : set_environ(n, v)
    \/ cleanup_environ

\* The process environment before the first test: every name present or not.
InitEnviron ==
    /\ cwd = Here
    /\ dirs = InitDirs
    /\ cd_frames = <<>>
    /\ cd_exc = FALSE
    /\ cd_hist = <<>>
    /\ cd_last = NoExit
    /\ environ \in [EnvNames -> {None, "orig"}]
    /\ environ_undos = <<>>
    /\ env_phase = "idle"
    /\ env_err = FALSE
    /\ env_log = <<>>
    /\ env_del = NoDel
    /\ fail = "TestCase.fail"
    /\ delayed_assertions = NoList
    /\ da_blocks = <<>>
    /\ da_exc = NoExc
    /\ da_hist = <<>>
    /\ da_op = "new_test"
    /\ da_last = NoBlockExit
    /\ files = {}
    /\ sys_path = <<<<"usr", "lib">>>>
    /\ sys_modules = StdModules
    /\ class_behaviors = <<>>
    /\ td_phase = "idle"
    /\ td_class = ""
    /\ td_temp_dir = <<>>
    /\ td_cleanups = <<>>
    /\ td_exc = NoExc
    /\ td_errs = 0
    /\ td_tests = 0
    /\ td_paths = {}
    /\ td_given = 0
    /\ td_calls = <<>>
    /\ td_last = NoCall
    /\ td_before = NoBefore
    /\ td_ran = <<>>
    /\ mc_old = NoCleaner
    /\ td_edited = FALSE
    /\ td_modlog = NoModOp
    /\ file_text = <<>>
    /\ td_direct = FALSE
    /\ bd_rec = NewBehavior("MadeNoFiles")
    /\ bd_out = "not asked"
    /\ sys_stdout = 1
    /\ sys_stderr = 2
    /\ streams = RealStreams
    /\ ss_phase = "idle"
    /\ ss_captured = NoCaptured
    /\ ss_cleanups = <<>>
    /\ ss_exc = NoExc
    /\ ss_tests = 0
    /\ ss_before = NoStreamsBefore
    /\ ss_written = NothingWritten
    /\ ss_read = NoRead

SpecEnviron == InitEnviron /\ [][NextEnviron]_vars

\* Tests whose bodies also call del_environ.
NextEnvironDel ==
    \/ env_setUp
    \/ \E n \in EnvNames, v \in EnvValues : set_environ(n, v)
    \/ \E n \in EnvNames : del_environ(n)
    \/ cleanup_environ

SpecEnvironDel == InitEnviron /\ [][NextEnvironDel]_vars

\* Test bodies that also change tracked variables in os.environ directly.
NextEnvironDirect ==
    \/ env_setUp
    \/ \E n \in EnvNames, v \in EnvValues : set_environ(n, v)
    \/ \E n \in EnvNames, v \in EnvValues : env_direct_set(n, v)
    \/ \E n \in EnvNames : env_direct_del(n)
    \/ cleanup_environ

SpecEnvironDirect == InitEnviron /\ [][NextEnvironDirect]_vars

\* One block at a time on a test case: blocks follow one another, none is
\* opened inside another.
NextDelayed ==
    \/ da_new_test
    \/ da_enter_top
    \/ da_assert_pass
    \/ \E m \in FailMsgs : da_assert_fail(m)
    \/ da_raise_other
    \/ da_exit
    \/ da_catch

\* A fresh test case, no block open.
InitDelayed ==
    /\ cwd = Here
    /\ dirs = InitDirs
    /\ cd_frames = <<>>
    /\ cd_exc = FALSE
    /\ cd_hist = <<>>
    /\ cd_last = NoExit
    /\ environ = [n \in EnvNames |-> None]
    /\ environ_undos = <<>>
    /\ env_phase = "idle"
    /\ env_err = FALSE
    /\ env_log = <<>>
    /\ env_del = NoDel
    /\ fail = "TestCase.fail"
    /\ delayed_assertions = NoList
    /\ da_blocks = <<>>
    /\ da_exc = NoExc
    /\ da_hist = <<>>
    /\ da_op = "new_test"
    /\ da_last = NoBlockExit
    /\ files = {}
    /\ sys_path = <<<<"usr", "lib">>>>
    /\ sys_modules = StdModules
    /\ class_behaviors = <<>>
    /\ td_phase = "idle"
    /\ td_class = ""
    /\ td_temp_dir = <<>>
    /\ td_cleanups = <<>>
    /\ td_exc = NoExc
    /\ td_errs = 0
    /\ td_tests = 0
    /\ td_paths = {}
    /\ td_given = 0
    /\ td_calls = <<>>
    /\ td_last = NoCall
    /\ td_before = NoBefore
    /\ td_ran = <<>>
    /\ mc_old = NoCleaner
    /\ td_edited = FALSE
    /\ td_modlog = NoModOp
    /\ file_text = <<>>
    /\ td_direct = FALSE
    /\ bd_rec = NewBehavior("MadeNoFiles")
    /\ bd_out = "not asked"
    /\ sys_stdout = 1
    /\ sys_stderr = 2
    /\ streams = RealStreams
    /\ ss_phase = "idle"
    /\ ss_captured = NoCaptured
    /\ ss_cleanups = <<>>
    /\ ss_exc = NoExc
    /\ ss_tests = 0
    /\ ss_before = NoStreamsBefore
    /\ ss_written = NothingWritten
    /\ ss_read = NoRead

SpecDelayed == InitDelayed /\ [][NextDelayed]_vars

\* The same test case with blocks opened inside open blocks.
NestedMsgs == {DiffXY, "boom"}

NextDelayedNested ==
    \/ da_new_test
    \/ da_enter
    \/ da_assert_pass
    \/ \E m \in NestedMsgs : da_assert_fail(m)
    \/ da_raise_other
    \/ da_exit
    \/ da_catch

SpecDelayedNested == InitDelayed /\ [][NextDelayedNested]_vars

NextTempDir ==
    \/ \E k \in Classes, n \in 0..MaxRand : td_setUp(k, n)
    \/ \E f \in FileNames : td_make_file(f, "")
    \/ td_skipTest
    \/ \E d \in BodyChdirArgs : td_chdir(d)
    \/ \E e \in BodyEndings : td_body_ends(e)
    \/ td_doCleanup
    \/ td_discard

\* A process that has run no test yet.
InitTempDir ==
    /\ cwd = Here
    /\ dirs = InitDirs
    /\ cd_frames = <<>>
    /\ cd_exc = FALSE
    /\ cd_hist = <<>>
    /\ cd_last = NoExit
    /\ environ = [n \in EnvNames |-> None]
    /\ environ_undos = <<>>
    /\ env_phase = "idle"
    /\ env_err = FALSE
    /\ env_log = <<>>
    /\ env_del = NoDel
    /\ fail = "TestCase.fail"
    /\ delayed_assertions = NoList
    /\ da_blocks = <<>>
    /\ da_exc = NoExc
    /\ da_hist = <<>>
    /\ da_op = "new_test"
    /\ da_last = NoBlockExit
    /\ files = {}
    /\ sys_path = <<<<"usr", "lib">>>>
    /\ sys_modules = StdModules
    /\ class_behaviors = <<>>
    /\ td_phase = "idle"
    /\ td_class = ""
    /\ td_temp_dir = <<>>
    /\ td_cleanups = <<>>
    /\ td_exc = NoExc
    /\ td_errs = 0
    /\ td_tests = 0
    /\ td_paths = {}
    /\ td_given = 0
    /\ td_calls = <<>>
    /\ td_last = NoCall
    /\ td_before = NoBefore
    /\ td_ran = <<>>
    /\ mc_old = NoCleaner
    /\ td_edited = FALSE
    /\ td_modlog = NoModOp
    /\ file_text = <<>>
    /\ td_direct = FALSE
    /\ bd_rec = NewBehavior("MadeNoFiles")
    /\ bd_out = "not asked"
    /\ sys_stdout = 1
    /\ sys_stderr = 2
    /\ streams = RealStreams
    /\ ss_phase = "idle"
    /\ ss_captured = NoCaptured
    /\ ss_cleanups = <<>>
    /\ ss_exc = NoExc
    /\ ss_tests = 0
    /\ ss_before = NoStreamsBefore
    /\ ss_written = NothingWritten
    /\ ss_read = NoRead

SpecTempDir == InitTempDir /\ [][NextTempDir]_vars

\* Tests whose bodies change the current directory, through self.chdir and
\* through os.chdir itself, and sys.path.
NextTempDirCwd ==
    \/ \E k \in Classes, n \in 0..MaxRand : td_setUp(k, n)
    \/ \E d \in BodyChdirArgs : td_chdir(d)
    \/ \E d \in OsChdirArgs : td_os_chdir(d)
    \/ \E d \in SysPathArgs : td_sys_path_insert(d)
    \/ td_sys_path_del
    \/ td_skipTest
    \/ \E e \in BodyEndings : td_body_ends(e)
    \/ td_doCleanup
    \/ td_discard

SpecTempDirCwd == InitTempDir /\ [][NextTempDirCwd]_vars

\* Tests whose bodies write module files, import them and call
\* cleanup_modules.
NextTempDirImport ==
    \/ \E k \in Classes, n \in 0..MaxRand : td_setUp(k, n)
    \/ \E m \in ModuleNames, t \in ModuleTexts : td_make_file(ModuleFile(m), t)
    \/ \E m \in ModuleNames : td_import(m)
    \/ td_cleanup_modules
    \/ \E e \in BodyEndings : td_body_ends(e)
    \/ td_doCleanup
    \/ td_discard

SpecTempDirImport == InitTempDir /\ [][NextTempDirImport]_vars

\* Code that uses a ModuleCleaner of its own, as test_module_cleaner does.
NextModuleCleaner ==
    \/ mc_new
    \/ \E m \in CleanerNames, t \in ModuleTexts : mc_import(m, t)
    \/ mc_cleanup

\* A process with any of the names already imported, no ModuleCleaner made.
InitModuleCleaner ==
    /\ cwd = Here
    /\ dirs = InitDirs
    /\ cd_frames = <<>>
    /\ cd_exc = FALSE
    /\ cd_hist = <<>>
    /\ cd_last = NoExit
    /\ environ = [n \in EnvNames |-> None]
    /\ environ_undos = <<>>
    /\ env_phase = "idle"
    /\ env_err = FALSE
    /\ env_log = <<>>
    /\ env_del = NoDel
    /\ fail = "TestCase.fail"
    /\ delayed_assertions = NoList
    /\ da_blocks = <<>>
    /\ da_exc = NoExc
    /\ da_hist = <<>>
    /\ da_op = "new_test"
    /\ da_last = NoBlockExit
    /\ files = {}
    /\ sys_path = <<<<"usr", "lib">>>>
    /\ sys_modules \in CleanerTables
    /\ class_behaviors = <<>>
    /\ td_phase = "idle"
    /\ td_class = ""
    /\ td_temp_dir = <<>>
    /\ td_cleanups = <<>>
    /\ td_exc = NoExc
    /\ td_errs = 0
    /\ td_tests = 0
    /\ td_paths = {}
    /\ td_given = 0
    /\ td_calls = <<>>
    /\ td_last = NoCall
    /\ td_before = NoBefore
    /\ td_ran = <<>>
    /\ mc_old = NoCleaner
    /\ td_edited = FALSE
    /\ td_modlog = NoModOp
    /\ file_text = <<>>
    /\ td_direct = FALSE
    /\ bd_rec = NewBehavior("MadeNoFiles")
    /\ bd_out = "not asked"
    /\ sys_stdout = 1
    /\ sys_stderr = 2
    /\ streams = RealStreams
    /\ ss_phase = "idle"
    /\ ss_captured = NoCaptured
    /\ ss_cleanups = <<>>
    /\ ss_exc = NoExc
    /\ ss_tests = 0
    /\ ss_before = NoStreamsBefore
    /\ ss_written = NothingWritten
    /\ ss_read = NoRead

SpecModuleCleaner == InitModuleCleaner /\ [][NextModuleCleaner]_vars

StreamEndings == BodyEndings \cup {SkipTest("I feel like it")}

NextStreams ==
    \/ ss_setUp
    \/ \E d \in WriteData : ss_write_stdout(d)
    \/ \E d \in WriteData : ss_write_stderr(d)
    \/ ss_stdout
    \/ ss_stderr
    \/ \E e \in StreamEndings : ss_body_ends(e)
    \/ ss_cleanup
    \/ ss_discard

\* A process whose streams are the real ones, or one in which an enclosing
\* test has put StringIOs of its own in sys.stdout and sys.stderr.
InitStreams ==
    /\ cwd = Here
    /\ dirs = InitDirs
    /\ cd_frames = <<>>
    /\ cd_exc = FALSE
    /\ cd_hist = <<>>
    /\ cd_last = NoExit
    /\ environ = [n \in EnvNames |-> None]
    /\ environ_undos = <<>>
    /\ env_phase = "idle"
    /\ env_err = FALSE
    /\ env_log = <<>>
    /\ env_del = NoDel
    /\ fail = "TestCase.fail"
    /\ delayed_assertions = NoList
    /\ da_blocks = <<>>
    /\ da_exc = NoExc
    /\ da_hist = <<>>
    /\ da_op = "new_test"
    /\ da_last = NoBlockExit
    /\ files = {}
    /\ sys_path = <<<<"usr", "lib">>>>
    /\ sys_modules = StdModules
    /\ class_behaviors = <<>>
    /\ td_phase = "idle"
    /\ td_class = ""
    /\ td_temp_dir = <<>>
    /\ td_cleanups = <<>>
    /\ td_exc = NoExc
    /\ td_errs = 0
    /\ td_tests = 0
    /\ td_paths = {}
    /\ td_given = 0
    /\ td_calls = <<>>
    /\ td_last = NoCall
    /\ td_before = NoBefore
    /\ td_ran = <<>>
    /\ mc_old = NoCleaner
    /\ td_edited = FALSE
    /\ td_modlog = NoModOp
    /\ file_text = <<>>
    /\ td_direct = FALSE
    /\ bd_rec = NewBehavior("MadeNoFiles")
    /\ bd_out = "not asked"
    /\ \/ /\ streams = RealStreams
          /\ sys_stdout = 1
          /\ sys_stderr = 2
       \/ /\ streams = RealStreams \o <<StringIO, StringIO>>
          /\ sys_stdout = 3
          /\ sys_stderr = 4
    /\ ss_phase = "idle"
    /\ ss_captured = NoCaptured
    /\ ss_cleanups = <<>>
    /\ ss_exc = NoExc
    /\ ss_tests = 0
    /\ ss_before = NoStreamsBefore
    /\ ss_written = NothingWritten
    /\ ss_read = NoRead

SpecStreams == InitStreams /\ [][NextStreams]_vars

NextBadness == bd_badness

\* Usage records with every combination of counters and flags.
InitBadness ==
    /\ cwd = Here
    /\ dirs = InitDirs
    /\ cd_frames = <<>>
    /\ cd_exc = FALSE
    /\ cd_hist = <<>>
    /\ cd_last = NoExit
    /\ environ = [n \in EnvNames |-> None]
    /\ environ_undos = <<>>
    /\ env_phase = "idle"
    /\ env_err = FALSE
    /\ env_log = <<>>
    /\ env_del = NoDel
    /\ fail = "TestCase.fail"
    /\ delayed_assertions = NoList
    /\ da_blocks = <<>>
    /\ da_exc = NoExc
    /\ da_hist = <<>>
    /\ da_op = "new_test"
    /\ da_last = NoBlockExit
    /\ files = {}
    /\ sys_path = <<<<"usr", "lib">>>>
    /\ sys_modules = StdModules
    /\ class_behaviors = <<>>
    /\ td_phase = "idle"
    /\ td_class = ""
    /\ td_temp_dir = <<>>
    /\ td_cleanups = <<>>
    /\ td_exc = NoExc
    /\ td_errs = 0
    /\ td_tests = 0
    /\ td_paths = {}
    /\ td_given = 0
    /\ td_calls = <<>>
    /\ td_last = NoCall
    /\ td_before = NoBefore
    /\ td_ran = <<>>
    /\ mc_old = NoCleaner
    /\ td_edited = FALSE
    /\ td_modlog = NoModOp
    /\ file_text = <<>>
    /\ td_direct = FALSE
    /\ bd_rec \in [klass : {"MadeNoFiles", "AFewTests"}, tests : 0..MaxCount,
                   skipped : 0..MaxCount, temp_dir : BOOLEAN, no_files_ok : BOOLEAN,
                   tests_making_files : 0..MaxCount,
                   test_method_made_any_files : BOOLEAN]
    /\ bd_out = "not asked"
    /\ sys_stdout = 1
    /\ sys_stderr = 2
    /\ streams = RealStreams
    /\ ss_phase = "idle"
    /\ ss_captured = NoCaptured
    /\ ss_cleanups = <<>>
    /\ ss_exc = NoExc
    /\ ss_tests = 0
    /\ ss_before = NoStreamsBefore
    /\ ss_written = NothingWritten
    /\ ss_read = NoRead

SpecBadness == InitBadness /\ [][NextBadness]_vars

-----------------------------------------------------------------------------
(* Claims *)

\* C1: when a change_dir scope exits (normally, by an exception, or after the
\* body changed directory again) the current directory is the one that was
\* current immediately before the scope was entered.
C1_ExitRestoresPreviousDir ==
    cd_last.done => cd_last.after = cd_last.before

\* A scope left by an exception after its body moved elsewhere, and whose
\* previous directory differed from where the body had moved to.
C1_Witness ==
    /\ cd_last.done
    /\ cd_last.raised
    /\ cd_last.moved
    /\ cd_last.depth = 2
    /\ cd_last.before # Here

\* The names passed to set_environ in the current test.
EnvTouched == {env_log[i].name : i \in 1..Len(env_log)}

\* What a name held just before the first set_environ call on it.
FirstBefore(n) ==
    LET i == CHOOSE i \in 1..Len(env_log) :
                 /\ env_log[i].name = n
                 /\ \A j \in 1..(i - 1) : env_log[j].name # n
    IN env_log[i].before

\* C2: after the environment cleanup every name set through set_environ, however
\* often and with whatever values, holds what it held before the first
\* set_environ call of the test, and is absent if it was absent then.
C2_EnvironRestored ==
    env_phase = "done" =>
        /\ ~env_err
        /\ \A n \in EnvTouched : environ[n] = FirstBefore(n)

\* A cleaned-up test that set one name twice with different values, the name
\* having been absent, and another name that existed.
C2_Witness ==
    /\ env_phase = "done"
    /\ Len(env_log) = 3
    /\ env_log[1].name = "XYZZY_PLUGH" /\ env_log[1].before = None
    /\ env_log[2].name = "XYZZY_PLUGH" /\ env_log[2].value # env_log[1].value
    /\ env_log[3].name = "HOME" /\ env_log[3].before = "orig"
    /\ environ["XYZZY_PLUGH"] = None

\* The messages of the failures a block intercepted, in the order they occurred.
InterceptedMsgs(rec) == [i \in 1..Len(rec.intercepted) |-> rec.intercepted[i].msg]

RECURSIVE InOrderSeparated(_, _, _)
\* The first n messages, in order, with sep between consecutive ones.
InOrderSeparated(msgs, sep, n) ==
    IF n = 1 THEN msgs[1]
    ELSE InOrderSeparated(msgs, sep, n - 1) \o sep \o msgs[n]

\* A block that was left without an error of the body.
BlockExitedNormally == da_last.done /\ da_last.bodyExc = NoExc

\* C3 (as stated): with two or more intercepted failures and no other error, the
\* block raises one failure whose message is "<N> failed assertions:\n" followed
\* by the intercepted messages in order, a blank line (two consecutive
\* newlines) between consecutive messages.
C3_BlankLineBetweenMessages ==
    (BlockExitedNormally /\ Len(da_last.intercepted) >= 2) =>
        da_last.outExc =
            AssertionError(ToString(Len(da_last.intercepted)) \o " failed assertions:\n"
                \o InOrderSeparated(InterceptedMsgs(da_last), "\n\n",
                                    Len(da_last.intercepted)))

\* C3 (amended): the same, with a single newline between consecutive messages.
C3_NewlineBetweenMessages ==
    (BlockExitedNormally /\ Len(da_last.intercepted) >= 2) =>
        da_last.outExc =
            AssertionError(ToString(Len(da_last.intercepted)) \o " failed assertions:\n"
                \o InOrderSeparated(InterceptedMsgs(da_last), "\n",
                                    Len(da_last.intercepted)))

\* The block of test_two_delayed_assertions has exited with its aggregate.
C3_Witness ==
    /\ BlockExitedNormally
    /\ InterceptedMsgs(da_last) = <<DiffXY, DiffWZ>>
    /\ da_last.outExc =
          AssertionError("2 failed assertions:\n'x' != 'y'\n- x\n+ y\n\n'w' != 'z'\n- w\n+ z\n")

\* C4: with exactly one intercepted failure, however many assertions passed,
\* the block raises one failure whose message is that message, unmodified and
\* without a count prefix.
C4_SingleFailureUnmodified ==
    (BlockExitedNormally /\ Len(da_last.intercepted) = 1) =>
        da_last.outExc = AssertionError(da_last.intercepted[1].msg)

\* The block of test_only_one_fails: a passing assertion, then the failing one.
C4_Witness ==
    /\ BlockExitedNormally
    /\ da_last.ran = 2
    /\ da_last.intercepted = <<[msg |-> DiffWZ, at |-> 2]>>
    /\ da_last.outExc = AssertionError(DiffWZ)

\* C5: a non-assertion error raised inside a block leaves the block as that
\* same error, whether or not failures were intercepted before: it is not
\* added to the list, not suppressed, and no aggregate is raised instead.
C5_OtherErrorPropagates ==
    /\ (da_op = "raise" /\ da_blocks # <<>>) =>
          /\ da_exc = ZeroDivisionError
          /\ delayed_assertions.items = InterceptedMsgs(da_hist[Len(da_hist)])
    /\ (da_last.done /\ da_last.bodyExc = ZeroDivisionError) =>
          /\ da_last.outExc = ZeroDivisionError
          /\ da_last.listAfter = da_last.listBefore
          /\ da_last.listAfter.items = InterceptedMsgs(da_last)

\* The block of test_non_assert_error: a failure is intercepted, then 1/0.
C5_Witness ==
    /\ da_op = "exit"
    /\ da_last.done
    /\ da_last.bodyExc = ZeroDivisionError
    /\ Len(da_last.intercepted) >= 1
    /\ da_exc = ZeroDivisionError

\* C6: an intercepted failure does not stop the block (control returns to the
\* body, later assertions run), and a block left without an error of the body
\* raises a failure at exit if and only if it intercepted at least one.
C6_BlockRunsOnAndFailsAtExit ==
    /\ da_op = "intercept" =>
          /\ da_exc = NoExc
          /\ da_blocks # <<>>
          /\ RanInBlock < MaxAsserts => ENABLED da_assert_pass
    /\ BlockExitedNormally =>
          /\ da_last.outExc.kind = "AssertionError" <=> Len(da_last.intercepted) >= 1
          /\ Len(da_last.intercepted) = 0 => da_last.outExc = NoExc

\* The first assertion of a block failed, two more ran, the block then raised.
C6_Witness ==
    /\ BlockExitedNormally
    /\ da_last.ran = 3
    /\ Len(da_last.intercepted) = 1
    /\ da_last.intercepted[1].at = 1
    /\ da_last.outExc.kind = "AssertionError"

\* C7: badness() returns "Inefficient: <ClassName> ran <tests_run> tests,
\* <tests_that_made_files> made files in a temp directory" exactly when
\* tests_run > tests_skipped, uses_temp_dir is true, tests_that_made_files is 0
\* and files_optional is false; in every other case it returns no badness.
C7_BadnessVerdict ==
    bd_out # "not asked" =>
        bd_out =
            IF /\ bd_rec.tests > bd_rec.skipped
               /\ bd_rec.temp_dir
               /\ bd_rec.tests_making_files = 0
               /\ ~bd_rec.no_files_ok
            THEN "Inefficient: " \o bd_rec.klass \o " ran " \o ToString(bd_rec.tests)
                     \o " tests, " \o ToString(bd_rec.tests_making_files)
                     \o " made files in a temp directory"
            ELSE None

\* The record of test_made_no_files was asked and reported.
C7_Witness ==
    /\ bd_rec = [NewBehavior("MadeNoFiles") EXCEPT !.tests = 1]
    /\ bd_out = "Inefficient: MadeNoFiles ran 1 tests, 0 made files in a temp directory"

\* C8: skipTest has counted the skip when the skip is signalled, so that once
\* every test run of a class called skipTest from its body the record has
\* tests_skipped equal to tests_run and badness() reports nothing.
C8_SkipCountedBeforeSignal ==
    /\ td_last.op = "skipTest" =>
          /\ td_exc = SkipTest("I feel like it")
          /\ td_last.after.skipped = td_last.before.skipped + 1
          /\ class_behaviors[td_class].skipped = td_last.after.skipped
    /\ \A k \in DOMAIN class_behaviors :
          (CallsOf(k).allSkipped /\ (td_phase \in {"idle", "finished"} \/ td_class # k)) =>
              /\ class_behaviors[k].skipped = class_behaviors[k].tests
              /\ badness(class_behaviors[k]) = None

\* Two tests of a temp-directory class have run, both skipped in their body.
C8_Witness ==
    /\ td_phase = "finished"
    /\ td_last.op = "skipTest"
    /\ "MadeNoFiles" \in DOMAIN class_behaviors
    /\ class_behaviors["MadeNoFiles"].tests = 2
    /\ class_behaviors["MadeNoFiles"].skipped = 2
    /\ CallsOf("MadeNoFiles").allSkipped

\* C9: in a class with run_in_temp_dir false, make_file fails with "Should only
\* use make_file in temp directories", which is a test failure; no file is
\* written and the made-a-file flag of the record is unchanged.
C9_MakeFileNeedsTempDir ==
    (td_last.op = "make_file" /\ ~td_last.run_in_temp_dir) =>
        /\ td_exc = AssertionError("Should only use make_file in temp directories")
        /\ Outcome(td_exc) = "failure"
        /\ ~td_last.wrote
        /\ td_last.after.test_method_made_any_files
              = td_last.before.test_method_made_any_files
        /\ class_behaviors[td_class].test_method_made_any_files
              = td_last.before.test_method_made_any_files

\* The test of test_made_files_no_temp_dir has failed and is cleaned up.
C9_Witness ==
    /\ td_phase = "finished"
    /\ td_class = "NoTempDir"
    /\ td_last.op = "make_file"
    /\ td_exc.kind = "AssertionError"

\* C10: the tests run with a temp directory are given pairwise distinct
\* paths: no test is given a path an earlier test of the process was given.
C10_DistinctTempDirs ==
    Cardinality(td_paths) = td_given

\* C11: after the cleanups of a test that was given a temporary directory,
\* in a class that does not set keep_temp_dir, the directory and everything
\* below it are gone, whatever ended the test (return, failed assertion,
\* other error, skip).
C11_TempDirRemoved ==
    (td_phase = "finished" /\ td_temp_dir # <<>> /\ ~ClassConfig[td_class].keep_temp_dir)
        => /\ \A d \in dirs : ~IsPrefix(td_temp_dir, d)
           /\ \A f \in files : ~IsPrefix(td_temp_dir, f)

\* A test that made a file in its temporary directory and then raised an
\* error has run its cleanups.
C11_Witness ==
    /\ td_phase = "finished"
    /\ td_temp_dir # <<>>
    /\ ~ClassConfig[td_class].keep_temp_dir
    /\ Outcome(td_exc) = "error"
    /\ td_last.op = "make_file" /\ td_last.wrote

\* C12 as stated: after the cleanups of every test the current directory is
\* the one that was current before its setUp, whatever the body did.
C12_CwdRestoredAlways ==
    td_phase = "finished" => cwd = td_before.cwd

\* C12, amended: the current directory is restored after the cleanups of a
\* test of a class with run_in_temp_dir true, whatever the body did, and of a
\* test of a class with run_in_temp_dir false whose body changed directory
\* only through self.chdir.
C12_CwdRestored ==
    (td_phase = "finished" /\ (ClassConfig[td_class].run_in_temp_dir \/ ~td_direct))
        => cwd = td_before.cwd

\* A test in a temporary directory whose body called self.chdir and then
\* os.chdir, and failed, has run its cleanups.
C12_Witness ==
    /\ td_phase = "finished"
    /\ td_temp_dir # <<>>
    /\ td_direct
    /\ Outcome(td_exc) = "failure"
    /\ td_before.taken /\ cwd = td_before.cwd

\* C13: after the cleanups of a test of a class that sets keep_temp_dir, the
\* temporary directory of the test still exists and the current directory is
\* the one that was current before setUp.
C13_KeptTempDirExists ==
    (td_phase = "finished" /\ td_temp_dir # <<>> /\ ClassConfig[td_class].keep_temp_dir)
        => (td_temp_dir \in dirs /\ cwd = td_before.cwd)

\* C14: setUp of a test of a class with run_in_temp_dir false makes no
\* temporary directory and no directory at all, and the test body starts with
\* the current directory and sys.path that were there before setUp; the class
\* record counts one more test.
C14_NoTempDirSetUp ==
    [][(td_phase = "idle" /\ td_phase' = "body" /\ ~ClassConfig[td_class'].run_in_temp_dir)
          => /\ td_temp_dir' = <<>>
             /\ dirs' = dirs
             /\ cwd' = cwd
             /\ sys_path' = sys_path
             /\ class_behaviors'[td_class'].tests
                   = class_behavior(class_behaviors, td_class').tests + 1
             /\ ~class_behaviors'[td_class'].temp_dir]_vars

\* The second test of the class NoTempDir is in its body.
C14_Witness ==
    /\ td_phase = "body"
    /\ td_class = "NoTempDir"
    /\ ChdirCleanups = 0 /\ ~td_direct
    /\ td_before.taken /\ td_before.tests = 1
    /\ class_behaviors[td_class].tests = 2

\* C15: in a test of a class with run_in_temp_dir true, until the body
\* changes sys.path itself the first entry of sys.path is the absolute path of
\* the temporary directory and the entries after it are those sys.path had
\* before setUp; after the cleanups sys.path has the entries it had before
\* setUp, in the same order, whatever the body inserted or deleted.
C15_SysPathPrependedAndRestored ==
    /\ (td_phase = "body" /\ td_temp_dir # <<>> /\ ~td_edited)
           => sys_path = <<td_temp_dir>> \o td_before.sys_path
    /\ (td_phase = "finished" /\ td_temp_dir # <<>>)
           => sys_path = td_before.sys_path

\* A test in a temporary directory whose body changed sys.path has run its
\* cleanups.
C15_Witness ==
    /\ td_phase = "finished"
    /\ td_temp_dir # <<>>
    /\ td_edited
    /\ sys_path = td_before.sys_path

\* C16: a cleanup_modules call leaves in sys.modules exactly the entries whose
\* names are in the snapshot, unchanged; and an import of a name that is not
\* in the snapshot, made right after a cleanup_modules call of the same test
\* or as the first import of a test, loads the definition its file has then.
C16_CleanupDropsNewModules ==
    /\ td_modlog.op = "cleanup" =>
          /\ DOMAIN td_modlog.after = DOMAIN td_modlog.before \cap td_modlog.old
          /\ \A n \in DOMAIN td_modlog.after : td_modlog.after[n] = td_modlog.before[n]
          /\ sys_modules = td_modlog.after
    /\ (td_modlog.op = "import" /\ td_modlog.prev \in {"cleanup", "none"}
                                /\ td_modlog.name \notin DOMAIN StdModules)
          => td_modlog.value = td_modlog.current

\* The second test imports xyzzy right after self.cleanup_modules() and gets
\* the definition A = 42 of the file as it is then.
C16_Witness ==
    /\ td_tests = 2
    /\ td_phase = "body"
    /\ td_modlog.op = "import" /\ td_modlog.prev = "cleanup"
    /\ td_modlog.name = "xyzzy" /\ td_modlog.value = "A = 42"
    /\ td_modlog.old = DOMAIN StdModules

\* C17: a cleanup_modules call that follows another with no import in
\* between deletes nothing: sys.modules is as the first call left it.
C17_CleanupTwiceIsNoOp ==
    (td_modlog.op = "cleanup" /\ td_modlog.prev = "cleanup")
        => (td_modlog.after = td_modlog.before /\ sys_modules = td_modlog.before)

\* A cleaner made when plugh was imported has deleted xyzzy, and was called
\* again.
C17_Witness ==
    /\ td_modlog.op = "cleanup" /\ td_modlog.prev = "cleanup"
    /\ mc_old.made /\ "plugh" \in mc_old.old_modules /\ "xyzzy" \notin mc_old.old_modules
    /\ "plugh" \in DOMAIN sys_modules

\* C18: after the cleanups of a StdStreamCapturingMixin test sys.stdout and
\* sys.stderr are the very objects they were before setUp, whatever ended the
\* test, also when an enclosing test had put streams of its own there.
C18_StreamsRestored ==
    ss_phase = "finished" =>
        (sys_stdout = ss_before.stdout /\ sys_stderr = ss_before.stderr)

\* A test run inside a test that replaced the streams has written to both,
\* was skipped, and has run its cleanups.
C18_Witness ==
    /\ ss_phase = "finished"
    /\ ss_before.taken /\ ss_before.stdout = 3 /\ ss_before.stderr = 4
    /\ Outcome(ss_exc) = "skipped"
    /\ ss_written.stdout # "" /\ ss_written.stderr # ""
    /\ sys_stdout = 3 /\ sys_stderr = 4

\* C19: from setUp on, the stream that was sys.stdout before setUp holds what
\* it held then followed by everything the body wrote to sys.stdout, the
\* output buffer holds exactly what the body wrote to sys.stdout, the error
\* buffer exactly what it wrote to sys.stderr, and the stream that was
\* sys.stderr before setUp holds what it held then; stdout() and stderr()
\* returned what had been written to their stream up to the call.
C19_TeeAndCapture ==
    ss_phase \in {"body", "cleanup", "finished"} =>
        /\ getvalue(streams, ss_before.stdout)
              = getvalue(ss_before.streams, ss_before.stdout) \o ss_written.stdout
        /\ getvalue(streams, ss_captured.stdout) = ss_written.stdout
        /\ getvalue(streams, ss_captured.stderr) = ss_written.stderr
        /\ getvalue(streams, ss_before.stderr)
              = getvalue(ss_before.streams, ss_before.stderr)
        /\ ss_read.op # "none" => ss_read.value = ss_read.written

\* The body of the second test wrote "Xyzzy" to sys.stdout and "Plugh" to
\* sys.stderr, and stderr() returned "Plugh".
C19_Witness ==
    /\ ss_phase = "body"
    /\ ss_tests = 2
    /\ ss_written.stdout = "Xyzzy" /\ ss_written.stderr = "Plugh"
    /\ ss_read.op = "stderr" /\ ss_read.value = "Plugh"
    /\ getvalue(streams, ss_before.stdout) # "Xyzzy"

\* C20: del_environ(N) on a name that is in the environment and was not set
\* by this test returns normally and leaves N absent, and after the
\* environment cleanup N holds what it held before the call; del_environ on a
\* name that is absent returns normally and leaves it absent.
C20_DelEnviron ==
    (env_del.called /\ ~env_del.was_set) =>
        /\ env_del.raised = "none"
        /\ env_phase # "done" => environ[env_del.name] = None
        /\ env_phase = "done" => environ[env_del.name] = env_del.before

\* C21: del_environ(N) on a name the test set earlier with set_environ returns
\* normally and leaves N with the value the test set, and after the
\* environment cleanup N holds what it held before the test's first
\* set_environ call on it (absent if it was absent).
C21_DelKeepsWhatWeSet ==
    (env_del.called /\ env_del.was_set) =>
        /\ env_del.raised = "none"
        /\ env_phase # "done" => environ[env_del.name] = env_del.before
        /\ env_phase = "done" => environ[env_del.name] = FirstBefore(env_del.name)

C23_MadeFilesIsPerTest ==
    td_phase = "idle" =>
        \A k \in DOMAIN class_behaviors :
            class_behaviors[k].tests_making_files = Cardinality(CallsOf(k).makers)

\* C24: a step that leaves a delayed_assertions block, with or without an
\* exception from the body, binds self.fail to what it was bound to when the
\* block was entered, and the collected failures are reported through that
\* binding: leaving a top-level block with a non-empty list raises the
\* AssertionError and appends nothing.  With no block open, a failing
\* assertion raises at once and is not collected.
C24_FailRestoredAtExit ==
    [][ /\ Len(da_blocks') < Len(da_blocks) =>
              LET old_fail == da_blocks[Len(da_blocks)].old_fail IN
              /\ fail' = old_fail
              /\ da_blocks' = <<>> => fail' = "TestCase.fail"
              /\ (da_blocks' = <<>> /\ da_exc = NoExc /\ delayed_assertions.items # <<>>) =>
                     /\ da_exc' = AssertionError(ExitMessage(delayed_assertions.items))
                     /\ delayed_assertions' = delayed_assertions
        /\ (da_blocks = <<>> /\ da_op' \in {"fail", "intercept"}) =>
              /\ da_op' = "fail"
              /\ da_exc'.kind = "AssertionError"
              /\ delayed_assertions' = delayed_assertions
      ]_vars

\* A top-level block that had intercepted a failure was left by a
\* ZeroDivisionError, and an assertion that failed after it raised at once.
C24_Witness ==
    /\ da_op = "fail"
    /\ da_blocks = <<>>
    /\ da_exc.kind = "AssertionError"
    /\ da_last.done
    /\ da_last.depth = 1
    /\ da_last.bodyExc = ZeroDivisionError
    /\ da_last.listBefore.items # <<>>

\* C25: whatever the test body did directly to a variable after the tracked
\* call on it, the environment cleanup raises nothing and leaves every name
\* of the undo log at its recorded original.
C25_CleanupNeverRaises ==
    env_phase = "done" =>
        /\ ~env_err
        /\ \A i \in 1..Len(environ_undos) :
              environ[environ_undos[i].name] = environ_undos[i].value

\* C26: a delayed_assertions block starts with an empty list, the list it is
\* left with holds the failures intercepted in that block and nothing else,
\* and the failure it raises at exit is made of those alone, whatever an
\* earlier block of the same test case collected and however it was left.
C26_ListLivesForOneBlock ==
    /\ da_op = "enter" => delayed_assertions = ListOf(<<>>)
    /\ da_last.done => da_last.listBefore.items = InterceptedMsgs(da_last)
    /\ (BlockExitedNormally /\ da_last.intercepted # <<>>) =>
          da_last.outExc = AssertionError(ExitMessage(InterceptedMsgs(da_last)))

\* An earlier block had collected a failure and was left by a
\* ZeroDivisionError; the next block intercepted one failure and raised it.
C26_Witness ==
    /\ BlockExitedNormally
    /\ da_last.stale
    /\ da_last.prevExc = "ZeroDivisionError"
    /\ Len(da_last.intercepted) = 1
    /\ da_last.outExc = AssertionError(da_last.intercepted[1].msg)

\* The functions of the cleanups run so far, first one first.
RanFns == [i \in 1..Len(td_ran) |-> td_ran[i].fn]

\* C27: when all cleanups of a test that was given a temp directory have run,
\* the five that setUp registered ran last and in this order: the usage-count
\* update, the change back of directory, the removal of the temp directory,
\* the restore of sys.path, the unloading of new modules; and no removal ever
\* found the process current directory inside the directory it removed.
C27_CleanupsInReverseOrder ==
    /\ (td_phase = "finished" /\ td_temp_dir # <<>>) =>
          /\ Len(td_ran) >= 5
          /\ SubSeq(RanFns, Len(td_ran) - 4, Len(td_ran)) =
                <<"check_behavior", "os_chdir", "rmtree", "saved_sys_path_exit",
                  "cleanup_modules">>
    /\ \A i \in 1..Len(td_ran) : ~td_ran[i].in_cwd

\* A test in a temp directory whose body changed directory with self.chdir
\* and with os.chdir has run all its cleanups, the removal among them.
C27_Witness ==
    /\ td_phase = "finished"
    /\ td_temp_dir # <<>>
    /\ td_direct
    /\ Len(td_ran) = 6
    /\ td_temp_dir \notin dirs

\* C28: when the outermost of nested delayed_assertions blocks is left without
\* an error of the body, every failure intercepted while it was open (before,
\* inside or after an inner block) is among the entries of the list its exit
\* reports.
C28_NestedLosesNoFailure ==
    (BlockExitedNormally /\ da_last.depth = 1) =>
        \A i \in 1..Len(da_last.intercepted) :
            \E j \in 1..Len(da_last.listBefore.items) :
                da_last.listBefore.items[j] = da_last.intercepted[i].msg

\* C29: the step of the environment cleanup leaves every name that is not in
\* the undo log as it was right before the step; and while the body runs, the
\* undo log only grows at its end, by a name that was not in it, recorded with
\* what the name held right before that call: entries already made never change.
C29_CleanupTouchesOnlyTheLog ==
    [][ /\ (env_phase # "done" /\ env_phase' = "done") =>
              \A n \in EnvNames :
                  ~InUndos(environ_undos, n) => environ'[n] = environ[n]
        /\ (env_phase = "body" /\ env_phase' = "body") =>
              /\ Len(environ_undos') >= Len(environ_undos)
              /\ SubSeq(environ_undos', 1, Len(environ_undos)) = environ_undos
              /\ Len(environ_undos') > Len(environ_undos) =>
                    LET e == environ_undos'[Len(environ_undos')] IN
                    /\ Len(environ_undos') = Len(environ_undos) + 1
                    /\ ~InUndos(environ_undos, e.name)
                    /\ e.value = environ[e.name]
      ]_vars

\* A cleaned-up test that set one name twice and never the other, which
\* exists: the log has the one entry, the other name is as it was.
C29_Witness ==
    /\ env_phase = "done"
    /\ Len(env_log) = 2
    /\ env_log[1].name = "XYZZY_PLUGH" /\ env_log[2].name = "XYZZY_PLUGH"
    /\ env_log[1].value # env_log[2].value
    /\ environ_undos = <<[name |-> "XYZZY_PLUGH", value |-> env_log[1].before]>>
    /\ environ["HOME"] = "orig"

====
